---- MODULE Spec2Model ----
(***************************************************************************)
(* Apple-Health-Data-Analyzer: the three batch pipelines of src/scripts.   *)
(*                                                                         *)
(*   step_corrector.py   two streaming passes over export.xml, the         *)
(*                       interval-overlap classification of step records,  *)
(*                       then the two summary files, a third pass for the  *)
(*                       workout distances and the printed summary         *)
(*   health_analyzer.py  one streaming pass over export.xml that fills     *)
(*                       the per-type counts and the data collections      *)
(*   gpx_analyzer.py     the date filter over the route directory and the  *)
(*                       per-route statistics                              *)
(*                                                                         *)
(* Representation.                                                         *)
(*   - Python None is <<>> and a present attribute is <<v>>.               *)
(*   - A type tag is the sequence of its words, so that the substring      *)
(*     test 'Cycling' in type is word membership:                          *)
(*     "HKWorkoutActivityTypeCycling" is <<"HKWorkoutActivityType",        *)
(*     "Cycling">>, and '' is <<>>.                                        *)
(*   - A timestamp text is [form, ymd, hm, tz]: its calendar digits, its   *)
(*     minute of the day, its UTC offset in minutes, and the shape of the  *)
(*     text ("full": YYYY-MM-DD HH:MM:00 +ZZZZ; "date": a first token      *)
(*     YYYY-MM-DD followed by nothing that matches the full format;        *)
(*     "junk": no date at all).                                            *)
(*   - A numeric attribute text is [form, n]: "int" is the decimal text    *)
(*     of n, "junk" is a text that neither int() nor float() accepts.      *)
(*   - Elevations are whole metres, coordinates whole degrees.             *)
(*   - The call of a function that may raise ends in [kind, value]: kind   *)
(*     "return" with the value returned, or the name of the exception.     *)
(***************************************************************************)
EXTENDS Integers, Sequences, FiniteSets, TLC

VARIABLES
    \* ---- export.xml and the iterparse pass in progress (both archive programs)
    prog,                   \* which program runs: "corrector" or "health"
    archive,                \* the top-level elements of export.xml, in document order
    readable,               \* export.xml exists and can be opened
    pc,                     \* the program's position
    pos,                    \* index of the next iterparse event
    fed,                    \* number of events whose text the parser has read
    dom,                    \* the element tree iterparse has built so far
    \* ---- step_corrector.py
    workout_times, step_records, total_steps, idx,
    steps_during_cycling, steps_during_skating, steps_during_walking, result,
    health_data, gpx_data,  \* what load_json_data returned for the two summaries
    distances,              \* the dictionary of extract_workout_distances_from_xml
    printed,                \* None, or Some(what generate_corrected_summary printed)
    \* ---- health_analyzer.py
    stats, workouts, heart_rate_data, step_data, energy_data,
    current_element, record_count, workout_count, summary,
    \* ---- gpx_analyzer.py: analyze_gpx_files
    listing, gpx_files, file_idx, routes, opened, processed_count, total_count,
    diagnostics, gpx_summary, gpc,
    \* ---- gpx_analyzer.py: _calculate_elevation_gain
    points, ei, elevation_gain, ele_return, epc,
    \* ---- gpx_analyzer.py: _calculate_duration
    dur_points, di, start_time, end_time, dur_return, dpc,
    \* ---- main of health_analyzer.py and of gpx_analyzer.py
    exit_status,            \* None while the process runs, then Some(status)
    report                  \* None, or Some(summary) once the JSON file is written

archiveVars == <<prog, archive, readable, pc, pos, fed, dom>>
correctorVars == <<workout_times, step_records, total_steps, idx,
                   steps_during_cycling, steps_during_skating,
                   steps_during_walking, result, health_data, gpx_data,
                   distances, printed>>
summaryVars == <<health_data, gpx_data, distances, printed>>
healthVars == <<stats, workouts, heart_rate_data, step_data, energy_data,
                current_element, record_count, workout_count, summary>>
gpxVars == <<listing, gpx_files, file_idx, routes, opened, processed_count,
             total_count, diagnostics, gpx_summary, gpc>>
eleVars == <<points, ei, elevation_gain, ele_return, epc>>
durVars == <<dur_points, di, start_time, end_time, dur_return, dpc>>
mainVars == <<exit_status, report>>
vars == <<archiveVars, correctorVars, healthVars, gpxVars, eleVars, durVars,
          mainVars>>

-----------------------------------------------------------------------------
(* Bounds of the model.                                                    *)

MaxElems == 3       \* top-level elements in export.xml
MaxFiles == 3       \* entries in the route directory
MaxPoints == 3      \* track points given to _calculate_elevation_gain

-----------------------------------------------------------------------------
(* Python values.                                                          *)

None == <<>>
Some(v) == <<v>>

\* {}: a dict is a function on its keys
EmptyDict == <<>>

\* elem.get(name, default)
GetOr(opt, default) == IF opt = None THEN default ELSE opt[1]

\* sum(...) over a sequence of integers
RECURSIVE SumSeq(_)
SumSeq(s) == IF s = <<>> THEN 0 ELSE s[1] + SumSeq(Tail(s))

\* word in tag: the substring test on a type tag
Contains(tag, word) == \E k \in 1..Len(tag) : tag[k] = word

-----------------------------------------------------------------------------
(* datetime: the proleptic Gregorian calendar of Python's datetime module, *)
(* at the resolution of one minute.                                        *)

IsLeap(y) == (y % 4 = 0) /\ ((y % 100 # 0) \/ (y % 400 = 0))

DaysInMonth(y, m) ==
    IF m = 2 THEN (IF IsLeap(y) THEN 29 ELSE 28)
    ELSE IF m \in {4, 6, 9, 11} THEN 30 ELSE 31

RECURSIVE DaysBeforeMonth(_, _)
DaysBeforeMonth(y, m) ==
    IF m <= 1 THEN 0 ELSE DaysBeforeMonth(y, m - 1) + DaysInMonth(y, m - 1)

DaysBeforeYear(y) ==
    LET p == y - 1 IN p * 365 + (p \div 4) - (p \div 100) + (p \div 400)

\* date.toordinal()
ToOrdinal(ymd) == DaysBeforeYear(ymd[1]) + DaysBeforeMonth(ymd[1], ymd[2]) + ymd[3]

\* what strptime accepts for %Y-%m-%d
ValidDate(ymd) ==
    /\ ymd[1] \in 1..9999
    /\ ymd[2] \in 1..12
    /\ ymd[3] \in 1..DaysInMonth(ymd[1], ymd[2])

\* datetime.strptime(text, '%Y-%m-%d %H:%M:%S %z'): an aware datetime, or
\* None where Python raises ValueError.  The offset of a timezone must be
\* strictly between -24 h and 24 h.
StrptimeFull(text) ==
    IF /\ text.form = "full" /\ ValidDate(text.ymd) /\ text.hm \in 0..1439
       /\ text.tz \in (0 - 1439)..1439
    THEN Some([ymd |-> text.ymd, hm |-> text.hm, tz |-> text.tz])
    ELSE None

\* datetime.strptime(text.split(' ')[0], '%Y-%m-%d'): a naive datetime at
\* midnight, or None where Python raises ValueError
StrptimeDay(text) ==
    IF text.form \in {"full", "date"} /\ ValidDate(text.ymd)
    THEN Some([ymd |-> text.ymd, hm |-> 0])
    ELSE None

\* dt.replace(tzinfo=None): the wall-clock digits, the offset dropped
ReplaceTzNone(dt) == [ymd |-> dt.ymd, hm |-> dt.hm]

\* The position of a naive datetime on the wall-clock axis, in minutes.
NaiveMinutes(dt) == ToOrdinal(dt.ymd) * 1440 + dt.hm

\* The absolute instant of an aware datetime, in minutes: local time minus
\* offset.  Aware datetimes compare by it.
Instant(dt) == ToOrdinal(dt.ymd) * 1440 + dt.hm - dt.tz

AwareLeq(a, b) == Instant(a) <= Instant(b)
NaiveGeq(a, b) == NaiveMinutes(a) >= NaiveMinutes(b)

\* start_date = datetime(2025, 5, 1), the cutoff of all three scripts
start_date == [ymd |-> <<2025, 5, 1>>, hm |-> 0]

-----------------------------------------------------------------------------
(* export.xml: elements and the iterparse event stream.                    *)

Stamp(ymd, hm, tz) == [form |-> "full", ymd |-> ymd, hm |-> hm, tz |-> tz]
IntText(n) == [form |-> "int", n |-> n]
JunkText == [form |-> "junk", n |-> 0]

\* A top-level element: <Record> or <Workout> with its attributes and, for
\* a workout, its child elements.
Element(tag, type, startDate, endDate, value, kids) ==
    [tag |-> tag, type |-> type, startDate |-> startDate, endDate |-> endDate,
     value |-> value, duration |-> None, durationUnit |-> None,
     sourceName |-> None, kids |-> kids]

\* A child of a <Workout>: <WorkoutStatistics> or another tag.
Child(tag, type, average, minimum, maximum, sum, unit) ==
    [tag |-> tag, type |-> type, average |-> average, minimum |-> minimum,
     maximum |-> maximum, sum |-> sum, unit |-> unit]

\* Element.clear(): every attribute and every child dropped, the tag kept.
ClearedElement(tag) == Element(tag, None, None, None, None, <<>>)
ClearedChild(tag) == Child(tag, None, None, None, None, None, None)

\* The events ET.iterparse(..., events=('start', 'end')) yields for one
\* top-level element i: its start, start and end of each child, its end.
RECURSIVE KidEvents(_, _, _)
KidEvents(i, n, j) ==
    IF j > n THEN <<>>
    ELSE <<[ev |-> "start", i |-> i, j |-> j], [ev |-> "end", i |-> i, j |-> j]>>
         \o KidEvents(i, n, j + 1)

ElementEvents(doc, i) ==
    <<[ev |-> "start", i |-> i, j |-> 0]>>
    \o KidEvents(i, Len(doc[i].kids), 1)
    \o <<[ev |-> "end", i |-> i, j |-> 0]>>

RECURSIVE TopEvents(_, _)
TopEvents(doc, i) ==
    IF i > Len(doc) THEN <<>> ELSE ElementEvents(doc, i) \o TopEvents(doc, i + 1)

\* The whole stream; i = 0 is the root element <HealthData>.
Events(doc) ==
    <<[ev |-> "start", i |-> 0, j |-> 0]>>
    \o TopEvents(doc, 1)
    \o <<[ev |-> "end", i |-> 0, j |-> 0]>>

\* The tree after the parser has read the text of event e: a start tag adds
\* the element, with its attributes and no children yet, to its parent.
Feed(d, doc, e) ==
    IF e.ev # "start" \/ e.i = 0 THEN d
    ELSE IF e.j = 0 THEN Append(d, [doc[e.i] EXCEPT !.kids = <<>>])
    ELSE [d EXCEPT ![e.i].kids = Append(@, doc[e.i].kids[e.j])]

\* The tree after the parser has read the text of the events from..to.
RECURSIVE FeedThrough(_, _, _, _)
FeedThrough(d, doc, from, to) ==
    IF from > to THEN d
    ELSE FeedThrough(Feed(d, doc, Events(doc)[from]), doc, from + 1, to)

\* iterparse hands out the events of the text it has read and, when none is
\* left, reads the next block of the file (16 KiB) and feeds it to the parser
\* before handing out the first event of it.  Where a block ends depends on
\* the layout of the file: the block read for event p may end after any
\* event from p on.
Blocks(doc, p, f) == IF p > f THEN p..Len(Events(doc)) ELSE {f}

\* The element an event carries, as it stands in the tree.
ElemOf(d, e) == IF e.j = 0 THEN d[e.i] ELSE d[e.i].kids[e.j]
TagOf(d, e) == IF e.i = 0 THEN "HealthData" ELSE ElemOf(d, e).tag

\* The tree after elem.clear() on the element of event e.
Clear(d, e) ==
    IF e.i = 0 THEN <<>>
    ELSE IF e.j = 0 THEN [d EXCEPT ![e.i] = ClearedElement(d[e.i].tag)]
    ELSE [d EXCEPT ![e.i].kids[e.j] = ClearedChild(d[e.i].kids[e.j].tag)]

\* elem.findall('.//WorkoutStatistics')
FindAllStatistics(elem) ==
    SelectSeq(elem.kids, LAMBDA k : k.tag = "WorkoutStatistics")

-----------------------------------------------------------------------------
(* step_corrector.py                                                       *)

StepCount == <<"HKQuantityTypeIdentifier", "StepCount">>
HeartRate == <<"HKQuantityTypeIdentifier", "HeartRate">>
ActiveEnergyBurned == <<"HKQuantityTypeIdentifier", "ActiveEnergy", "Burned">>
BasalEnergyBurned == <<"HKQuantityTypeIdentifier", "BasalEnergy", "Burned">>

\* int(text): the integer, or None where Python raises ValueError
ParseInt(text) == IF text.form = "int" THEN Some(text.n) ELSE None

\* float(text): the number, or None where Python raises ValueError
ParseFloat(text) == IF text.form = "int" THEN Some(text.n) ELSE None

\* extract_workout_times, the body run on the end event of a <Workout>:
\* workout_times after it.
WorkoutTimesAfterEndSlip(times, elem) ==
    IF elem.startDate = None \/ elem.endDate = None THEN times
    ELSE LET workout_start == StrptimeFull(elem.startDate[1])
             workout_end == StrptimeFull(elem.endDate[1])
         IN  IF workout_start = None \/ workout_end = None THEN times
             ELSE IF NaiveGeq(ReplaceTzNone(workout_start[1]), start_date)
                  THEN Append(times, [start |-> workout_start[1],
                                      end |-> workout_start[1],
                                      type |-> GetOr(elem.type, <<>>)])
                  ELSE times

WorkoutTimesAfter(times, elem) ==
    IF elem.startDate = None \/ elem.endDate = None THEN times
    ELSE LET workout_start == StrptimeFull(elem.startDate[1])
             workout_end == StrptimeFull(elem.endDate[1])
         IN  IF workout_start = None \/ workout_end = None THEN times
             ELSE IF NaiveGeq(ReplaceTzNone(workout_start[1]), start_date)
                  THEN Append(times, [start |-> workout_start[1],
                                      end |-> workout_end[1],
                                      type |-> GetOr(elem.type, <<>>)])
                  ELSE times

\* extract_steps_with_times, the body run on the end event of a <Record>:
\* step_records after it.
StepRecordsAfterMissingCutoff(records, elem) ==
    IF elem.type # Some(StepCount) THEN records
    ELSE IF elem.startDate = None \/ elem.endDate = None \/ elem.value = None
         THEN records
    ELSE LET step_start == StrptimeFull(elem.startDate[1])
             step_end == StrptimeFull(elem.endDate[1])
             value == ParseInt(elem.value[1])
         IN  IF step_start = None \/ step_end = None \/ value = None THEN records
             ELSE Append(records, [start |-> step_start[1], end |-> step_end[1],
                                   value |-> value[1],
                                   source |-> GetOr(elem.sourceName, "Unknown")])

StepRecordsAfter(records, elem) ==
    IF elem.type # Some(StepCount) THEN records
    ELSE IF elem.startDate = None \/ elem.endDate = None \/ elem.value = None
         THEN records
    ELSE LET step_start == StrptimeFull(elem.startDate[1])
             step_end == StrptimeFull(elem.endDate[1])
         IN  IF step_start = None \/ step_end = None THEN records
             ELSE IF NaiveGeq(ReplaceTzNone(step_start[1]), start_date)
                  THEN LET value == ParseInt(elem.value[1])
                       IN  IF value = None THEN records
                           ELSE Append(records,
                                    [start |-> step_start[1], end |-> step_end[1],
                                     value |-> value[1],
                                     source |-> GetOr(elem.sourceName, "Unknown")])
                  ELSE records

\* extract_workout_times() and extract_steps_with_times() on a whole
\* document: the body above run at the end event of each top-level
\* <Workout>, resp. <Record>, in document order.
RECURSIVE WorkoutTimesFrom(_, _)
WorkoutTimesFrom(times, doc) ==
    IF doc = <<>> THEN times
    ELSE WorkoutTimesFrom(IF Head(doc).tag = "Workout"
                          THEN WorkoutTimesAfter(times, Head(doc)) ELSE times,
                          Tail(doc))

extract_workout_times(doc) == WorkoutTimesFrom(<<>>, doc)

RECURSIVE StepRecordsFrom(_, _)
StepRecordsFrom(records, doc) ==
    IF doc = <<>> THEN records
    ELSE StepRecordsFrom(IF Head(doc).tag = "Record"
                         THEN StepRecordsAfter(records, Head(doc)) ELSE records,
                         Tail(doc))

extract_steps_with_times(doc) == StepRecordsFrom(<<>>, doc)

\* is_step_during_workout: the scan over the workouts, returning at the
\* first overlap.
RECURSIVE is_step_during_workout_wallclock(_, _)
is_step_during_workout_wallclock(step_record, times) ==
    IF times = <<>> THEN FALSE
    ELSE IF /\ NaiveMinutes(step_record.start) <= NaiveMinutes(Head(times).end)
            /\ NaiveMinutes(step_record.end) >= NaiveMinutes(Head(times).start)
         THEN TRUE
         ELSE is_step_during_workout_wallclock(step_record, Tail(times))

RECURSIVE is_step_during_workout_strict(_, _)
is_step_during_workout_strict(step_record, times) ==
    IF times = <<>> THEN FALSE
    ELSE IF /\ Instant(step_record.start) < Instant(Head(times).end)
            /\ Instant(step_record.end) > Instant(Head(times).start)
         THEN TRUE
         ELSE is_step_during_workout_strict(step_record, Tail(times))

RECURSIVE is_step_during_workout(_, _)
is_step_during_workout(step_record, times) ==
    IF times = <<>> THEN FALSE
    ELSE IF /\ AwareLeq(step_record.start, Head(times).end)
            /\ AwareLeq(Head(times).start, step_record.end)
         THEN TRUE
         ELSE is_step_during_workout(step_record, Tail(times))

\* [w for w in workout_times if word in w['type']]
WorkoutsOfType(times, word) == SelectSeq(times, LAMBDA w : Contains(w.type, word))

cycling_workouts == WorkoutsOfType(workout_times, "Cycling")
skating_workouts == WorkoutsOfType(workout_times, "Skating")
walking_workouts == WorkoutsOfType(workout_times, "Walking")

\* sum(step['value'] for step in records)
RECURSIVE SumValues(_)
SumValues(records) ==
    IF records = <<>> THEN 0 ELSE Head(records).value + SumValues(Tail(records))

\* The if/elif chain of the classification loop: the list the step record
\* is appended to, "none" when it is appended to no list.
ClassifyWalkingFirst(step) ==
    IF is_step_during_workout(step, walking_workouts) THEN "walking"
    ELSE IF is_step_during_workout(step, cycling_workouts) THEN "cycling"
    ELSE IF is_step_during_workout(step, skating_workouts) THEN "skating"
    ELSE "none"

ClassifySkatingFirst(step) ==
    IF is_step_during_workout(step, skating_workouts) THEN "skating"
    ELSE IF is_step_during_workout(step, cycling_workouts) THEN "cycling"
    ELSE IF is_step_during_workout(step, walking_workouts) THEN "walking"
    ELSE "none"

Classify(step) ==
    IF is_step_during_workout(step, cycling_workouts) THEN "cycling"
    ELSE IF is_step_during_workout(step, skating_workouts) THEN "skating"
    ELSE IF is_step_during_workout(step, walking_workouts) THEN "walking"
    ELSE "none"

\* corrected_steps = total_steps - cycling_steps - skating_steps
CorrectedMinusWalking(total, cycling, skating, walking) ==
    total - cycling - skating - walking

Corrected(total, cycling, skating, walking) == total - cycling - skating

\* ---- extract_workout_times: ET.iterparse cannot open export.xml.  Nothing
\* catches the exception: the interpreter prints the traceback and the
\* process ends with status 1.
CorrectorOpenFails ==
    /\ prog = "corrector" /\ pc = "workout_times" /\ ~readable
    /\ pc' = "exited"
    /\ exit_status' = Some(1)
    /\ UNCHANGED <<prog, archive, readable, fed, pos, dom, report,
                   correctorVars, healthVars, gpxVars, eleVars, durVars>>

\* ---- extract_workout_times: one iterparse event
WorkoutPassEvent ==
    /\ prog = "corrector" /\ pc = "workout_times" /\ readable
    /\ pos <= Len(Events(archive))
    /\ \E upto \in Blocks(archive, pos, fed) :
         LET e == Events(archive)[pos]
             d == FeedThrough(dom, archive, fed + 1, upto)
         IN  /\ fed' = upto
             /\ IF e.ev = "end" /\ TagOf(d, e) = "Workout"
                THEN /\ workout_times' = WorkoutTimesAfter(workout_times, ElemOf(d, e))
                     /\ dom' = Clear(d, e)
                ELSE /\ workout_times' = workout_times
                     /\ dom' = d
    /\ pos' = pos + 1
    /\ UNCHANGED <<prog, archive, readable, pc, step_records, total_steps, idx,
                   steps_during_cycling, steps_during_skating,
                   steps_during_walking, result, summaryVars,
                   healthVars, gpxVars, eleVars, durVars, mainVars>>

\* extract_workout_times returns; extract_steps_with_times opens the file anew
WorkoutPassReturn ==
    /\ prog = "corrector" /\ pc = "workout_times" /\ readable
    /\ pos > Len(Events(archive))
    /\ pc' = "step_records" /\ pos' = 1 /\ fed' = 0 /\ dom' = <<>>
    /\ UNCHANGED <<prog, archive, readable, correctorVars, healthVars, gpxVars, eleVars, durVars, mainVars>>

\* ---- extract_steps_with_times: one iterparse event
StepPassEvent ==
    /\ prog = "corrector" /\ pc = "step_records" /\ readable
    /\ pos <= Len(Events(archive))
    /\ \E upto \in Blocks(archive, pos, fed) :
         LET e == Events(archive)[pos]
             d == FeedThrough(dom, archive, fed + 1, upto)
         IN  /\ fed' = upto
             /\ IF e.ev = "end" /\ TagOf(d, e) = "Record"
                THEN /\ step_records' = StepRecordsAfter(step_records, ElemOf(d, e))
                     /\ dom' = Clear(d, e)
                ELSE /\ step_records' = step_records
                     /\ dom' = d
    /\ pos' = pos + 1
    /\ UNCHANGED <<prog, archive, readable, pc, workout_times, total_steps, idx,
                   steps_during_cycling, steps_during_skating,
                   steps_during_walking, result, summaryVars,
                   healthVars, gpxVars, eleVars, durVars, mainVars>>

\* extract_steps_with_times returns; calculate_corrected_steps partitions the
\* workouts, sums total_steps and enters the classification loop
StepPassReturn ==
    /\ prog = "corrector" /\ pc = "step_records" /\ readable
    /\ pos > Len(Events(archive))
    /\ pc' = "classify" /\ fed' = 0 /\ dom' = <<>>
    /\ total_steps' = SumValues(step_records)
    /\ idx' = 1
    /\ steps_during_cycling' = <<>>
    /\ steps_during_skating' = <<>>
    /\ steps_during_walking' = <<>>
    /\ UNCHANGED <<prog, archive, readable, pos, workout_times, step_records, result,
                   summaryVars, healthVars, gpxVars, eleVars, durVars, mainVars>>

\* ---- one iteration of: for step in step_records
ClassifyStepNonExclusive ==
    /\ prog = "corrector" /\ pc = "classify"
    /\ idx <= Len(step_records)
    /\ LET step == step_records[idx]
       IN  /\ steps_during_cycling' =
                IF is_step_during_workout(step, cycling_workouts)
                THEN Append(steps_during_cycling, step)
                ELSE steps_during_cycling
           /\ steps_during_skating' =
                IF is_step_during_workout(step, skating_workouts)
                THEN Append(steps_during_skating, step)
                ELSE steps_during_skating
           /\ steps_during_walking' =
                IF is_step_during_workout(step, walking_workouts)
                THEN Append(steps_during_walking, step)
                ELSE steps_during_walking
    /\ idx' = idx + 1
    /\ UNCHANGED <<archiveVars, workout_times, step_records, total_steps, result,
                   summaryVars, healthVars, gpxVars, eleVars, durVars, mainVars>>

ClassifyStep ==
    /\ prog = "corrector" /\ pc = "classify"
    /\ idx <= Len(step_records)
    /\ LET step == step_records[idx]
           class == Classify(step)
       IN  /\ steps_during_cycling' =
                IF class = "cycling" THEN Append(steps_during_cycling, step)
                ELSE steps_during_cycling
           /\ steps_during_skating' =
                IF class = "skating" THEN Append(steps_during_skating, step)
                ELSE steps_during_skating
           /\ steps_during_walking' =
                IF class = "walking" THEN Append(steps_during_walking, step)
                ELSE steps_during_walking
    /\ idx' = idx + 1
    /\ UNCHANGED <<archiveVars, workout_times, step_records, total_steps, result,
                   summaryVars, healthVars, gpxVars, eleVars, durVars, mainVars>>

\* ---- the sums, corrected_steps and the returned dictionary
Aggregate ==
    /\ prog = "corrector" /\ pc = "classify"
    /\ idx > Len(step_records)
    /\ LET cycling_steps == SumValues(steps_during_cycling)
           skating_steps == SumValues(steps_during_skating)
           walking_steps == SumValues(steps_during_walking)
       IN  result' = Some([total_steps |-> total_steps,
                           cycling_steps |-> cycling_steps,
                           skating_steps |-> skating_steps,
                           walking_steps |-> walking_steps,
                           corrected_steps |->
                               Corrected(total_steps, cycling_steps,
                                         skating_steps, walking_steps),
                           step_records |-> step_records,
                           workout_times |-> workout_times])
    /\ pc' = "load_json"
    /\ UNCHANGED <<prog, archive, readable, fed, pos, dom, workout_times, step_records,
                   total_steps, idx, steps_during_cycling, steps_during_skating,
                   steps_during_walking, summaryVars,
                   healthVars, gpxVars, eleVars, durVars, mainVars>>

-----------------------------------------------------------------------------
(* step_corrector.py: generate_corrected_summary, after                    *)
(* calculate_corrected_steps has returned.                                 *)
(* A JSON file is [form]: "missing", "malformed", or "json" with the kind  *)
(* ("dict" or "list") and the value of the document.  A Python dict is a   *)
(* function on its keys, a list is a sequence.                             *)

MissingFile == [form |-> "missing", kind |-> "none", value |-> <<>>]
MalformedFile == [form |-> "malformed", kind |-> "none", value |-> <<>>]
JsonFile(kind, value) == [form |-> "json", kind |-> kind, value |-> value]

PyValue(kind, value) == [kind |-> kind, value |-> value]

\* load_json_data(filename): the document, or {} after FileNotFoundError or
\* JSONDecodeError
load_json_data(file) ==
    IF file.form = "json" THEN PyValue(file.kind, file.value)
    ELSE PyValue("dict", EmptyDict)

\* not data, on a dict or a list: it is empty
Falsy(data) == DOMAIN data.value = {}

\* d.get(k, default) on a dict
DictGet(d, k, default) == IF k \in DOMAIN d THEN d[k] ELSE default

DistanceCyclingType == "HKQuantityTypeIdentifierDistanceCycling"
DistanceSkatingSportsType == "HKQuantityTypeIdentifierDistanceSkatingSports"
DistanceWalkingRunningType == "HKQuantityTypeIdentifierDistanceWalkingRunning"

\* The key of distances a statistics block of stat_type adds to, "none"
\* when the if/elif chain of lines 226-237 has no branch for it.
DistanceKey(stat_type, workout_type) ==
    IF stat_type = Some(DistanceCyclingType) THEN "cycling"
    ELSE IF stat_type = Some(DistanceSkatingSportsType) THEN "skating"
    ELSE IF stat_type = Some(DistanceWalkingRunningType)
         THEN (IF Contains(workout_type, "Running") THEN "running" ELSE "walking")
    ELSE "none"

\* float(stat_elem.get('sum', 0)): None where float() raises ValueError
SumOf(stat_elem) ==
    IF stat_elem.sum = None THEN Some(0) ELSE ParseFloat(stat_elem.sum[1])

\* The loop over elem.findall('.//WorkoutStatistics'): distances after it.
\* A ValueError raised by float() leaves the loop through the except clause,
\* the distances added before it kept.
RECURSIVE AddStatistics(_, _, _)
AddStatistics(dist, kids, workout_type) ==
    IF kids = <<>> THEN dist
    ELSE LET stat_elem == Head(kids)
             key == DistanceKey(stat_elem.type, workout_type)
         IN  IF key = "none" THEN AddStatistics(dist, Tail(kids), workout_type)
             ELSE IF SumOf(stat_elem) = None THEN dist
             ELSE AddStatistics([dist EXCEPT ![key] = @ + SumOf(stat_elem)[1]],
                                Tail(kids), workout_type)

\* extract_workout_distances_from_xml, the body run on the end event of a
\* <Workout>: distances after it.
DistancesAfter(dist, elem) ==
    IF elem.startDate = None THEN dist
    ELSE LET workout_date == StrptimeDay(elem.startDate[1])
         IN  IF workout_date = None THEN dist
             ELSE IF NaiveGeq(workout_date[1], start_date)
                  THEN AddStatistics(dist, FindAllStatistics(elem),
                                     GetOr(elem.type, <<>>))
                  ELSE dist

ZeroDistances == [cycling |-> 0, skating |-> 0, walking |-> 0, running |-> 0]

\* extract_workout_distances_from_xml() on a whole document
RECURSIVE DistancesFrom(_, _)
DistancesFrom(dist, doc) ==
    IF doc = <<>> THEN dist
    ELSE DistancesFrom(IF Head(doc).tag = "Workout"
                       THEN DistancesAfter(dist, Head(doc)) ELSE dist,
                       Tail(doc))

extract_workout_distances_from_xml(doc) == DistancesFrom(ZeroDistances, doc)

\* A number as an f-string prints it under a format specification.
Formatted(spec, number) == [spec |-> spec, number |-> number]

\* Lines 178-200: the lines of the summary that carry a value.
SummaryLines(health, gpx, corrected_steps, dist) ==
    LET total_workouts == DictGet(health, "total_workouts", 0)
        gpx_elevation == DictGet(gpx, "total_elevation_gain_m", 0)
        active_energy ==
            DictGet(DictGet(DictGet(health, "energy_summary", EmptyDict),
                            "active_energy", EmptyDict),
                    "total", 0)
    IN  [total_workouts |-> Formatted("", total_workouts),
         corrected_steps |-> Formatted(",", corrected_steps),
         cycling_km |-> Formatted(".1f", dist.cycling),
         skating_km |-> Formatted(".1f", dist.skating),
         walking_km |-> Formatted(".1f", dist.walking),
         active_calories |-> Formatted(",", active_energy),
         elevation_m |-> Formatted(".0f", gpx_elevation)]

\* The two summary files generate_corrected_summary may find.
HealthJsonFiles ==
    { MissingFile, MalformedFile, JsonFile("dict", EmptyDict),
      JsonFile("dict", [total_workouts |-> 3,
                        energy_summary |-> [active_energy |-> [total |-> 30]]]) }
GpxJsonFiles ==
    { MissingFile,
      JsonFile("dict", [total_distance_km |-> 12, total_elevation_gain_m |-> 5]),
      JsonFile("list", <<1>>) }

\* ---- lines 167-175: the two summaries are loaded; without one of them the
\* function prints a message and returns, and the process ends with status 0
LoadJson ==
    /\ prog = "corrector" /\ pc = "load_json"
    /\ \E hf \in HealthJsonFiles, gf \in GpxJsonFiles :
         LET health == load_json_data(hf)
             gpx == load_json_data(gf)
         IN  /\ health_data' = Some(health)
             /\ gpx_data' = Some(gpx)
             /\ IF Falsy(health) \/ Falsy(gpx)
                THEN /\ printed' = Some([message |-> "No data available for analysis!"])
                     /\ pc' = "exited"
                     /\ exit_status' = Some(0)
                     /\ UNCHANGED <<pos, fed, dom, distances>>
                ELSE /\ pc' = "distances"
                     /\ pos' = 1 /\ fed' = 0 /\ dom' = <<>>
                     /\ distances' = ZeroDistances
                     /\ UNCHANGED <<printed, exit_status>>
    /\ UNCHANGED <<prog, archive, readable, workout_times, step_records, total_steps,
                   idx, steps_during_cycling, steps_during_skating,
                   steps_during_walking, result, report,
                   healthVars, gpxVars, eleVars, durVars>>

\* ---- extract_workout_distances_from_xml: one iterparse event
DistancePassEvent ==
    /\ prog = "corrector" /\ pc = "distances"
    /\ pos <= Len(Events(archive))
    /\ \E upto \in Blocks(archive, pos, fed) :
         LET e == Events(archive)[pos]
             d == FeedThrough(dom, archive, fed + 1, upto)
         IN  /\ fed' = upto
             /\ IF e.ev = "end" /\ TagOf(d, e) = "Workout"
                THEN /\ distances' = DistancesAfter(distances, ElemOf(d, e))
                     /\ dom' = Clear(d, e)
                ELSE /\ distances' = distances
                     /\ dom' = d
    /\ pos' = pos + 1
    /\ UNCHANGED <<prog, archive, readable, pc, workout_times, step_records,
                   total_steps, idx, steps_during_cycling, steps_during_skating,
                   steps_during_walking, result, health_data, gpx_data, printed,
                   healthVars, gpxVars, eleVars, durVars, mainVars>>

\* ---- extract_workout_distances_from_xml returns; lines 178-200 read the
\* two summaries and print.  .get on a summary that is not a dict raises
\* AttributeError, which nothing catches: the process ends with status 1
\* and has printed no summary.
PrintSummary ==
    /\ prog = "corrector" /\ pc = "distances"
    /\ pos > Len(Events(archive))
    /\ IF health_data[1].kind = "dict" /\ gpx_data[1].kind = "dict"
       THEN /\ printed' = Some(SummaryLines(health_data[1].value, gpx_data[1].value,
                                            result[1].corrected_steps, distances))
            /\ exit_status' = Some(0)
       ELSE /\ printed' = printed
            /\ exit_status' = Some(1)
    /\ pc' = "exited"
    /\ UNCHANGED <<prog, archive, readable, pos, fed, dom, workout_times,
                   step_records, total_steps, idx, steps_during_cycling,
                   steps_during_skating, steps_during_walking, result,
                   health_data, gpx_data, distances, report,
                   healthVars, gpxVars, eleVars, durVars>>

-----------------------------------------------------------------------------
(* health_analyzer.py                                                      *)

\* d[k] = v on a dict
DictPut(d, k, v) == [x \in (DOMAIN d) \cup {k} |-> IF x = k THEN v ELSE d[x]]

\* self.stats[record_type] += 1 on a defaultdict(int)
Increment(d, k) == DictPut(d, k, IF k \in DOMAIN d THEN d[k] + 1 ELSE 1)


\* The accumulators _process_record writes.
Accumulators(s, hr, st, en) ==
    [stats |-> s, heart_rate_data |-> hr, step_data |-> st, energy_data |-> en]

\* _process_record(elem): the accumulators after it.  A ValueError raised
\* by float() or int() leaves the function through the except clause, after
\* the statements before it have run.
_process_record(acc, elem) ==
    IF elem.startDate = None THEN acc
    ELSE LET start_date_str == elem.startDate[1]
             record_date == StrptimeDay(start_date_str)
         IN  IF record_date = None THEN acc
             ELSE IF ~NaiveGeq(record_date[1], start_date) THEN acc
             ELSE LET record_type == GetOr(elem.type, <<"Unknown">>)
                      counted == [acc EXCEPT !.stats = Increment(@, record_type)]
                      value == elem.value
                  IN  IF record_type = HeartRate
                      THEN IF value = None \/ ParseFloat(value[1]) = None
                           THEN counted
                           ELSE [counted EXCEPT !.heart_rate_data =
                                    Append(@, [date |-> start_date_str,
                                               value |-> ParseFloat(value[1])[1]])]
                      ELSE IF record_type = StepCount
                      THEN IF value = None \/ ParseInt(value[1]) = None
                           THEN counted
                           ELSE [counted EXCEPT !.step_data =
                                    Append(@, [date |-> start_date_str,
                                               value |-> ParseInt(value[1])[1]])]
                      ELSE IF record_type \in {ActiveEnergyBurned, BasalEnergyBurned}
                      THEN IF value = None \/ ParseFloat(value[1]) = None
                           THEN counted
                           ELSE [counted EXCEPT !.energy_data =
                                    Append(@, [date |-> start_date_str,
                                               type |-> record_type,
                                               value |-> ParseFloat(value[1])[1]])]
                      ELSE counted

\* The statistics dictionary _process_workout builds from the children
\* found by findall, in document order (a later block of a type overwrites
\* an earlier one; "if stat_type" skips a missing and an empty type).
RECURSIVE StatisticsOf(_, _)
StatisticsOf(d, kids) ==
    IF kids = <<>> THEN d
    ELSE LET stat_elem == Head(kids)
             stat_type == stat_elem.type
         IN  IF stat_type # None /\ stat_type[1] # ""
             THEN StatisticsOf(DictPut(d, stat_type[1],
                                       [average |-> stat_elem.average,
                                        minimum |-> stat_elem.minimum,
                                        maximum |-> stat_elem.maximum,
                                        sum |-> stat_elem.sum,
                                        unit |-> stat_elem.unit]),
                               Tail(kids))
             ELSE StatisticsOf(d, Tail(kids))

\* _process_workout(elem): self.workouts after it
_process_workout(list, elem) ==
    IF elem.startDate = None THEN list
    ELSE LET start_date_str == elem.startDate[1]
             workout_date == StrptimeDay(start_date_str)
         IN  IF workout_date = None THEN list
             ELSE IF ~NaiveGeq(workout_date[1], start_date) THEN list
             ELSE Append(list,
                    [type |-> GetOr(elem.type, <<"Unknown">>),
                     start_date |-> start_date_str,
                     end_date |-> elem.endDate,
                     duration |-> elem.duration,
                     duration_unit |-> elem.durationUnit,
                     source |-> elem.sourceName,
                     statistics |-> StatisticsOf(EmptyDict,
                                                 FindAllStatistics(elem))])

\* ---- parse_xml_streaming: a start event
ParseStart ==
    /\ prog = "health" /\ pc = "parse" /\ readable
    /\ pos <= Len(Events(archive))
    /\ Events(archive)[pos].ev = "start"
    /\ \E upto \in Blocks(archive, pos, fed) :
         LET e == Events(archive)[pos]
         IN  /\ fed' = upto
             /\ dom' = FeedThrough(dom, archive, fed + 1, upto)
             /\ current_element' = Some(<<e.i, e.j>>)
    /\ pos' = pos + 1
    /\ UNCHANGED <<prog, archive, readable, pc, stats, workouts, heart_rate_data,
                   step_data, energy_data, record_count, workout_count, summary,
                   correctorVars, gpxVars, eleVars, durVars, mainVars>>

\* ---- parse_xml_streaming: the end event of a <Record>
ParseEndRecord ==
    /\ prog = "health" /\ pc = "parse" /\ readable
    /\ pos <= Len(Events(archive))
    /\ \E upto \in Blocks(archive, pos, fed) :
         LET e == Events(archive)[pos]
             d == FeedThrough(dom, archive, fed + 1, upto)
         IN  /\ e.ev = "end" /\ TagOf(d, e) = "Record"
             /\ fed' = upto
             /\ LET acc == _process_record(
                              Accumulators(stats, heart_rate_data, step_data,
                                           energy_data),
                              ElemOf(d, e))
                IN  /\ stats' = acc.stats
                    /\ heart_rate_data' = acc.heart_rate_data
                    /\ step_data' = acc.step_data
                    /\ energy_data' = acc.energy_data
             /\ dom' = Clear(d, e)
    /\ record_count' = record_count + 1
    /\ pos' = pos + 1
    /\ UNCHANGED <<prog, archive, readable, pc, workouts, current_element, workout_count,
                   summary, correctorVars, gpxVars, eleVars, durVars, mainVars>>

\* ---- parse_xml_streaming: the end event of a <Workout>
ParseEndWorkout ==
    /\ prog = "health" /\ pc = "parse" /\ readable
    /\ pos <= Len(Events(archive))
    /\ \E upto \in Blocks(archive, pos, fed) :
         LET e == Events(archive)[pos]
             d == FeedThrough(dom, archive, fed + 1, upto)
         IN  /\ e.ev = "end" /\ TagOf(d, e) = "Workout"
             /\ fed' = upto
             /\ workouts' = _process_workout(workouts, ElemOf(d, e))
             /\ dom' = Clear(d, e)
    /\ workout_count' = workout_count + 1
    /\ pos' = pos + 1
    /\ UNCHANGED <<prog, archive, readable, pc, stats, heart_rate_data, step_data,
                   energy_data, current_element, record_count, summary,
                   correctorVars, gpxVars, eleVars, durVars, mainVars>>

\* ---- parse_xml_streaming: the end event of any other element (a child of
\* a workout, the root): only elem.clear()
ParseEndOther ==
    /\ prog = "health" /\ pc = "parse" /\ readable
    /\ pos <= Len(Events(archive))
    /\ \E upto \in Blocks(archive, pos, fed) :
         LET e == Events(archive)[pos]
             d == FeedThrough(dom, archive, fed + 1, upto)
         IN  /\ e.ev = "end" /\ TagOf(d, e) \notin {"Record", "Workout"}
             /\ fed' = upto
             /\ dom' = Clear(d, e)
    /\ pos' = pos + 1
    /\ UNCHANGED <<prog, archive, readable, pc, stats, workouts, heart_rate_data,
                   step_data, energy_data, current_element, record_count,
                   workout_count, summary, correctorVars, gpxVars, eleVars, durVars, mainVars>>

-----------------------------------------------------------------------------
(* health_analyzer.py: generate_summary and the four analyses.  A true     *)
(* division a / b is kept as the pair [num |-> a, den |-> b].              *)

\* sum, max and min over the values of a dict
RECURSIVE SumDict(_)
SumDict(d) ==
    IF DOMAIN d = {} THEN 0
    ELSE LET k == CHOOSE x \in DOMAIN d : TRUE
         IN  d[k] + SumDict([x \in (DOMAIN d) \ {k} |-> d[x]])

MaxDict(d) == CHOOSE v \in {d[k] : k \in DOMAIN d} : \A k \in DOMAIN d : d[k] <= v
MinDict(d) == CHOOSE v \in {d[k] : k \in DOMAIN d} : \A k \in DOMAIN d : d[k] >= v

MaxOf(s) == CHOOSE v \in {s[k] : k \in DOMAIN s} : \A k \in DOMAIN s : s[k] <= v
MinOf(s) == CHOOSE v \in {s[k] : k \in DOMAIN s} : \A k \in DOMAIN s : s[k] >= v

\* s[-n:]
LastN(s, n) == IF Len(s) <= n THEN s ELSE SubSeq(s, Len(s) - n + 1, Len(s))

\* [x['value'] for x in data]
ValuesOf(data) == [k \in DOMAIN data |-> data[k].value]

\* step['date'].split(' ')[0]: the calendar digits the text starts with
DateKey(text) == text.ymd

\* daily_steps[date_key] += step['value'] for each step, on a defaultdict(int)
RECURSIVE DailySteps(_, _)
DailySteps(d, data) ==
    IF data = <<>> THEN d
    ELSE LET k == DateKey(Head(data).date)
         IN  DailySteps(DictPut(d, k, (IF k \in DOMAIN d THEN d[k] ELSE 0)
                                      + Head(data).value),
                        Tail(data))

_analyze_heart_rate ==
    IF heart_rate_data = <<>> THEN [message |-> "No heart rate data found"]
    ELSE LET values == ValuesOf(heart_rate_data)
         IN  [total_readings |-> Len(values),
              average |-> [num |-> SumSeq(values), den |-> Len(values)],
              min |-> MinOf(values),
              max |-> MaxOf(values),
              recent_readings |-> LastN(heart_rate_data, 10)]

_analyze_steps ==
    IF step_data = <<>> THEN [message |-> "No step data found"]
    ELSE LET daily_steps == DailySteps(EmptyDict, step_data)
         IN  [total_days |-> Cardinality(DOMAIN daily_steps),
              total_steps |-> SumDict(daily_steps),
              average_daily |-> [num |-> SumDict(daily_steps),
                                 den |-> Cardinality(DOMAIN daily_steps)],
              max_daily |-> MaxDict(daily_steps),
              min_daily |-> MinDict(daily_steps),
              daily_breakdown |-> daily_steps]

\* One entry of the result of _analyze_energy.
EnergyEntry(data) ==
    LET values == ValuesOf(data)
    IN  [total |-> SumSeq(values),
         average |-> [num |-> SumSeq(values), den |-> Len(values)],
         max |-> MaxOf(values)]

_analyze_energy ==
    IF energy_data = <<>> THEN [message |-> "No energy data found"]
    ELSE LET active_energy ==
                 SelectSeq(energy_data, LAMBDA e : Contains(e.type, "ActiveEnergy"))
             basal_energy ==
                 SelectSeq(energy_data, LAMBDA e : Contains(e.type, "BasalEnergy"))
             with_active ==
                 IF active_energy # <<>>
                 THEN DictPut(EmptyDict, "active_energy", EnergyEntry(active_energy))
                 ELSE EmptyDict
         IN  IF basal_energy # <<>>
             THEN DictPut(with_active, "basal_energy", EnergyEntry(basal_energy))
             ELSE with_active

\* Counter(w['type'] for w in self.workouts)
RECURSIVE CountTypes(_, _)
CountTypes(d, list) ==
    IF list = <<>> THEN d
    ELSE CountTypes(Increment(d, Head(list).type), Tail(list))

\* total_duration += float(workout['duration']), a ValueError skipped
RECURSIVE TotalDuration(_)
TotalDuration(list) ==
    IF list = <<>> THEN 0
    ELSE LET duration == Head(list).duration
         IN  (IF duration # None /\ ParseFloat(duration[1]) # None
              THEN ParseFloat(duration[1])[1] ELSE 0)
             + TotalDuration(Tail(list))

AnalyzeWorkoutsUnguarded ==
    [total_workouts |-> Len(workouts),
     workout_types |-> CountTypes(EmptyDict, workouts),
     total_duration_minutes |-> TotalDuration(workouts),
     average_duration |-> [num |-> TotalDuration(workouts),
                           den |-> Len(workouts)],
     recent_workouts |-> LastN(workouts, 5)]

_analyze_workouts ==
    IF workouts = <<>> THEN [message |-> "No workouts found"]
    ELSE [total_workouts |-> Len(workouts),
          workout_types |-> CountTypes(EmptyDict, workouts),
          total_duration_minutes |-> TotalDuration(workouts),
          average_duration |-> [num |-> TotalDuration(workouts),
                                den |-> Len(workouts)],
          recent_workouts |-> LastN(workouts, 5)]

\* ---- main: ET.iterparse cannot open export.xml (the file is missing or
\* unreadable).  The exception leaves parse_xml_streaming, main's except
\* clause prints it and calls sys.exit(1); nothing has been written.
OpenFailsWithoutExit ==
    /\ prog = "health" /\ pc = "parse" /\ ~readable
    /\ pc' = "exited"
    /\ exit_status' = Some(0)
    /\ UNCHANGED <<prog, archive, readable, fed, pos, dom, report,
                   correctorVars, healthVars, gpxVars, eleVars, durVars>>

OpenFails ==
    /\ prog = "health" /\ pc = "parse" /\ ~readable
    /\ pc' = "exited"
    /\ exit_status' = Some(1)
    /\ UNCHANGED <<prog, archive, readable, fed, pos, dom, report,
                   correctorVars, healthVars, gpxVars, eleVars, durVars>>

\* ---- parse_xml_streaming returns; generate_summary; main writes the
\* summary to health_summary_may2025.json and returns
GenerateSummary ==
    /\ prog = "health" /\ pc = "parse" /\ readable
    /\ pos > Len(Events(archive))
    /\ summary' = Some([total_records |-> SumDict(stats),
                        total_workouts |-> Len(workouts),
                        record_types |-> stats,
                        workouts |-> workouts,
                        heart_rate_summary |-> _analyze_heart_rate,
                        step_summary |-> _analyze_steps,
                        energy_summary |-> _analyze_energy,
                        workout_summary |-> _analyze_workouts])
    /\ report' = summary'
    /\ exit_status' = Some(0)
    /\ pc' = "done"
    /\ UNCHANGED <<prog, archive, readable, fed, pos, dom, stats, workouts,
                   heart_rate_data, step_data, energy_data, current_element,
                   record_count, workout_count,
                   correctorVars, gpxVars, eleVars, durVars>>

-----------------------------------------------------------------------------
(* The archives the two programs are run on.                               *)

May1 == <<2025, 5, 1>>
May2 == <<2025, 5, 2>>
Apr30 == <<2025, 4, 30>>

HM(h, m) == h * 60 + m

Cycling == <<"HKWorkoutActivityType", "Cycling">>
Skating == <<"HKWorkoutActivityType", "Skating", "Sports">>
Walking == <<"HKWorkoutActivityType", "Walking">>
Running == <<"HKWorkoutActivityType", "Running">>
BodyMass == <<"HKQuantityTypeIdentifier", "BodyMass">>

\* A <WorkoutStatistics> block that carries a distance.
Distance(type, sum) ==
    Child("WorkoutStatistics", Some(type), None, None, None, Some(sum), Some("km"))

\* The statistics an exported workout of the type carries.
DistancesOf(type) ==
    IF type = Cycling THEN <<Distance(DistanceCyclingType, IntText(12))>>
    ELSE IF type = Skating THEN <<Distance(DistanceSkatingSportsType, IntText(7))>>
    ELSE IF type = Walking THEN <<Distance(DistanceWalkingRunningType, IntText(3))>>
    ELSE <<Distance(DistanceWalkingRunningType, IntText(5)),
           Distance(DistanceWalkingRunningType, JunkText)>>

WorkoutElem(type, ymd, from, to, tz) ==
    Element("Workout", Some(type), Some(Stamp(ymd, from, tz)),
            Some(Stamp(ymd, to, tz)), None, DistancesOf(type))

StepElem(ymd, from, to, tz, value) ==
    Element("Record", Some(StepCount), Some(Stamp(ymd, from, tz)),
            Some(Stamp(ymd, to, tz)), Some(value), <<>>)

RecordElem(type, startDate, value) ==
    Element("Record", type, startDate, startDate, value, <<>>)

\* Elements of the archives the step corrector is run on.
CorrectorElems ==
    { WorkoutElem(Cycling, May1, HM(10, 0), HM(10, 30), 0),
      WorkoutElem(Skating, May1, HM(10, 10), HM(11, 0), 0),
      WorkoutElem(Walking, May1, HM(10, 30), HM(11, 5), 0),
      WorkoutElem(Running, May1, HM(10, 0), HM(11, 5), 0),
      WorkoutElem(Cycling, Apr30, HM(10, 0), HM(10, 30), 0),
      StepElem(May1, HM(10, 5), HM(10, 10), 0, IntText(500)),
      StepElem(May1, HM(11, 0), HM(11, 5), 0, IntText(200)),
      StepElem(May1, HM(10, 30), HM(11, 0), 0, IntText(200)),
      StepElem(May1, HM(12, 5), HM(12, 10), 120, IntText(500)),
      StepElem(Apr30, HM(10, 5), HM(10, 10), 0, IntText(500)),
      StepElem(May1, HM(10, 5), HM(10, 10), 0, JunkText),
      StepElem(May1, HM(11, 0), HM(11, 5), 0, IntText(0 - 300)) }

DistanceCycling ==
    Child("WorkoutStatistics", Some(DistanceCyclingType),
          Some("11"), Some("9"), Some("14"), Some("12"), Some("km"))
UntypedStatistics ==
    Child("WorkoutStatistics", None, Some("1"), None, None, None, None)

HealthWorkout(ymd, kids) ==
    [Element("Workout", Some(Cycling), Some(Stamp(ymd, HM(10, 0), 120)),
             Some(Stamp(ymd, HM(10, 30), 120)), None, kids)
        EXCEPT !.duration = Some(IntText(30)), !.durationUnit = Some("min"),
               !.sourceName = Some("Watch")]

\* Elements of the archives the health analyzer is run on.
HealthElems ==
    { RecordElem(Some(StepCount), Some(Stamp(May1, HM(10, 0), 120)),
                 Some(IntText(200))),
      RecordElem(Some(StepCount), Some(Stamp(May2, HM(10, 0), 120)),
                 Some(IntText(500))),
      RecordElem(Some(StepCount), Some(Stamp(Apr30, HM(23, 59), 120)),
                 Some(IntText(500))),
      RecordElem(Some(StepCount), Some(Stamp(May1, HM(10, 0), 120)),
                 Some(JunkText)),
      RecordElem(Some(StepCount),
                 Some([form |-> "junk", ymd |-> <<0, 0, 0>>, hm |-> 0, tz |-> 0]),
                 Some(IntText(200))),
      RecordElem(Some(HeartRate), Some(Stamp(May1, HM(10, 0), 120)),
                 Some(IntText(70))),
      RecordElem(Some(HeartRate), None, Some(IntText(70))),
      RecordElem(Some(ActiveEnergyBurned), Some(Stamp(May1, HM(10, 0), 120)),
                 Some(IntText(30))),
      RecordElem(Some(BodyMass), Some(Stamp(May1, HM(10, 0), 120)),
                 Some(IntText(80))),
      HealthWorkout(May1, <<DistanceCycling, UntypedStatistics>>),
      HealthWorkout(Apr30, <<DistanceCycling>>) }

ElemsOf(p) == IF p = "corrector" THEN CorrectorElems ELSE HealthElems

\* Every document of at most MaxElems top-level elements.
Archives(p) == UNION { [1..n -> ElemsOf(p)] : n \in 0..MaxElems }

\* The variables of a pipeline that is not running.
IdleArchive ==
    /\ prog = "none" /\ archive = <<>> /\ readable = TRUE
    /\ pc = "idle" /\ pos = 0 /\ fed = 0 /\ dom = <<>>
IdleCorrector ==
    /\ workout_times = <<>> /\ step_records = <<>> /\ total_steps = 0
    /\ idx = 0 /\ steps_during_cycling = <<>> /\ steps_during_skating = <<>>
    /\ steps_during_walking = <<>> /\ result = None
    /\ health_data = None /\ gpx_data = None
    /\ distances = ZeroDistances /\ printed = None
IdleHealth ==
    /\ stats = EmptyDict /\ workouts = <<>> /\ heart_rate_data = <<>>
    /\ step_data = <<>> /\ energy_data = <<>> /\ current_element = None
    /\ record_count = 0 /\ workout_count = 0 /\ summary = None
IdleGpx ==
    /\ listing = None /\ gpx_files = <<>> /\ file_idx = 0 /\ routes = <<>>
    /\ opened = {} /\ processed_count = 0 /\ total_count = 0
    /\ diagnostics = <<>> /\ gpx_summary = None /\ gpc = "idle"
IdleEle ==
    /\ points = <<>> /\ ei = 0 /\ elevation_gain = 0 /\ ele_return = None
    /\ epc = "idle"
IdleDur ==
    /\ dur_points = <<>> /\ di = 0 /\ start_time = None /\ end_time = None
    /\ dur_return = None /\ dpc = "idle"
\* No process has ended and no report file has been written.
IdleMain == exit_status = None /\ report = None

\* Either program started on an archive: the state after HealthDataParser's
\* __init__, or on entry to calculate_corrected_steps.
Init ==
    /\ prog \in {"corrector", "health"}
    /\ readable \in BOOLEAN
    /\ archive \in IF readable THEN Archives(prog) ELSE {<<>>}
    /\ pc = IF prog = "corrector" THEN "workout_times" ELSE "parse"
    /\ pos = 1
    /\ fed = 0
    /\ dom = <<>>
    /\ IdleCorrector /\ IdleHealth /\ IdleGpx /\ IdleEle /\ IdleDur /\ IdleMain

Next ==
    \/ WorkoutPassEvent
    \/ WorkoutPassReturn
    \/ StepPassEvent
    \/ StepPassReturn
    \/ ClassifyStep
    \/ Aggregate
    \/ LoadJson
    \/ DistancePassEvent
    \/ PrintSummary
    \/ ParseStart
    \/ ParseEndRecord
    \/ ParseEndWorkout
    \/ ParseEndOther
    \/ GenerateSummary
    \/ OpenFails
    \/ CorrectorOpenFails

Spec == Init /\ [][Next]_vars

-----------------------------------------------------------------------------
(* gpx_analyzer.py: the route statistics.                                  *)
(* A track point is [lat, lon, ele, time]; lat and lon are whole degrees,   *)
(* ele is None or Some(metres), time is None or Some(text) with the text   *)
(* of a <time> element as TimeText describes it.                           *)
(* A distance is the sequence of the great-circle legs whose lengths       *)
(* (R * c of the Haversine formula) are added up: <<>> is 0.0, and adding  *)
(* two distances is concatenation.                                         *)

TrackPoint(lat, lon, ele, time) ==
    [lat |-> lat, lon |-> lon, ele |-> ele, time |-> time]

\* The body of the loop of _calculate_elevation_gain: elevation_gain after
\* the pair (p1, p2).
ElevationStepSigned(gain, p1, p2) ==
    IF p1.ele # None /\ p2.ele # None
    THEN gain + (p2.ele[1] - p1.ele[1])
    ELSE gain

ElevationStep(gain, p1, p2) ==
    IF p1.ele # None /\ p2.ele # None
    THEN LET elevation_diff == p2.ele[1] - p1.ele[1]
         IN  IF elevation_diff > 0 THEN gain + elevation_diff ELSE gain
    ELSE gain

\* for i in range(len(points) - 1), from index i (1-based) with gain so far
RECURSIVE ElevationLoop(_, _, _)
ElevationLoop(pts, i, gain) ==
    IF i > Len(pts) - 1 THEN gain
    ELSE ElevationLoop(pts, i + 1, ElevationStep(gain, pts[i], pts[i + 1]))

_calculate_elevation_gain(pts) ==
    IF Len(pts) < 2 THEN 0 ELSE ElevationLoop(pts, 1, 0)

\* The text of a <time> element, [form, min, tz]: form "aware" is an ISO
\* text with a zone ('Z' or +HH:MM, tz its offset in minutes), "naive" an
\* ISO text without a zone, "junk" a text fromisoformat rejects, "empty" the
\* text ''; min is the minute its clock digits denote.
TimeText(form, min, tz) == [form |-> form, min |-> min, tz |-> tz]

\* if point['time']: the element is present and its text is not ''
Truthy(time) == time # None /\ time[1].form # "empty"

\* The body of the scan loop: <<start_time, end_time>> after the point.
ScanStep(times, point) ==
    IF Truthy(point.time)
    THEN <<IF times[1] = None THEN point.time ELSE times[1], point.time>>
    ELSE times

\* The first and the last truthy point['time'] of the scan, as
\* <<start_time, end_time>>.
RECURSIVE ScanTimes(_, _, _)
ScanTimes(pts, first, last) ==
    IF pts = <<>> THEN <<first, last>>
    ELSE LET times == ScanStep(<<first, last>>, Head(pts))
         IN  ScanTimes(Tail(pts), times[1], times[2])

\* datetime.fromisoformat(text.replace('Z', '+00:00')), None on ValueError:
\* an aware datetime for a text with a zone, a naive one for a text without
FromIsoFormat(text) ==
    IF text.form \in {"aware", "naive"}
    THEN Some([aware |-> text.form = "aware", min |-> text.min,
               tz |-> IF text.form = "aware" THEN text.tz ELSE 0])
    ELSE None

\* How a call ends: it returns a value, or an exception leaves it.
Returned(v) == [kind |-> "return", value |-> v]
Raised(exception) == [kind |-> exception, value |-> 0]

\* The statements after the scan.  end_dt - start_dt is defined between two
\* aware or two naive datetimes; between one of each Python raises
\* TypeError, which the except ValueError clause does not catch.
DurationOf(times) ==
    IF Truthy(times[1]) /\ Truthy(times[2])
    THEN LET start_dt == FromIsoFormat(times[1][1])
             end_dt == FromIsoFormat(times[2][1])
         IN  IF start_dt = None \/ end_dt = None THEN Returned(0)
             ELSE IF start_dt[1].aware # end_dt[1].aware THEN Raised("TypeError")
             ELSE Returned((end_dt[1].min - end_dt[1].tz)
                           - (start_dt[1].min - start_dt[1].tz))
    ELSE Returned(0)

\* _calculate_duration(points): Returned(minutes), or Raised
_calculate_duration(pts) ==
    IF Len(pts) < 2 THEN Returned(0)
    ELSE DurationOf(ScanTimes(pts, None, None))

Abs(x) == IF x < 0 THEN 0 - x ELSE x

\* The whole-degree latitudes at which the double-precision value of a in
\* the Haversine formula, for a point (lat, lon) and its antipode
\* (-lat, lon +- 180), comes out above 1.  For every other pair of
\* whole-degree points a lies in [0, 1].
RoundsAboveOne == {8, 12, 82}

\* math.sqrt(1 - a) raises ValueError (math domain error) on the leg p1-p2
DomainError(p1, p2) ==
    /\ p2.lat = 0 - p1.lat
    /\ Abs(p1.lat) \in RoundsAboveOne
    /\ Abs(p2.lon - p1.lon) = 180

Leg(p1, p2) == [lat1 |-> p1.lat, lon1 |-> p1.lon, lat2 |-> p2.lat, lon2 |-> p2.lon]

\* The loop of _calculate_distance from pair i on, total_distance so far
RECURSIVE DistanceLoop(_, _, _)
DistanceLoop(pts, i, total_distance) ==
    IF i >= Len(pts) THEN Returned(total_distance)
    ELSE IF DomainError(pts[i], pts[i + 1]) THEN Raised("ValueError")
    ELSE DistanceLoop(pts, i + 1,
                      Append(total_distance, Leg(pts[i], pts[i + 1])))

\* _calculate_distance(points): Returned(distance), or Raised
_calculate_distance(pts) ==
    IF Len(pts) < 2 THEN Returned(<<>>) ELSE DistanceLoop(pts, 1, <<>>)

\* An exception reaches the except clause of _analyze_single_gpx, which
\* prints "Error analyzing <filename>: ...": ET.parse fails, or one of the
\* two calculations raises.
AnalysisRaises(file) ==
    IF file.content.parse # "ok" THEN TRUE
    ELSE IF file.content.trkpts = <<>> THEN FALSE
    ELSE \/ _calculate_distance(file.content.trkpts).kind # "return"
         \/ _calculate_duration(file.content.trkpts).kind # "return"

\* _analyze_single_gpx(file_path, filename, route_date): Some(route_info), or
\* None for a file without track points or one whose analysis raises (the
\* except Exception clause).
AnalyzeKeepingEmpty(file, route_date) ==
    IF file.content.parse # "ok" THEN None
    ELSE LET track_points == file.content.trkpts
         IN  Some([filename |-> file.name,
                   date |-> route_date.ymd,
                   track_points |-> Len(track_points),
                   distance_km |-> _calculate_distance(track_points).value,
                   elevation_gain_m |-> _calculate_elevation_gain(track_points),
                   duration_minutes |-> _calculate_duration(track_points).value,
                   start_point |-> [lat |-> 0, lon |-> 0],
                   end_point |-> [lat |-> 0, lon |-> 0]])

_analyze_single_gpx(file, route_date) ==
    IF file.content.parse # "ok" THEN None
    ELSE LET track_points == file.content.trkpts
         IN  IF track_points = <<>> THEN None
             ELSE IF _calculate_distance(track_points).kind # "return" THEN None
             ELSE IF _calculate_duration(track_points).kind # "return" THEN None
             ELSE Some([filename |-> file.name,
                        date |-> route_date.ymd,
                        track_points |-> Len(track_points),
                        distance_km |->
                            _calculate_distance(track_points).value,
                        elevation_gain_m |->
                            _calculate_elevation_gain(track_points),
                        duration_minutes |->
                            _calculate_duration(track_points).value,
                        start_point |-> [lat |-> track_points[1].lat,
                                         lon |-> track_points[1].lon],
                        end_point |->
                            [lat |-> track_points[Len(track_points)].lat,
                             lon |-> track_points[Len(track_points)].lon]])

-----------------------------------------------------------------------------
(* gpx_analyzer.py: analyze_gpx_files.                                     *)
(* A file name is "route" followed by "_<token>_<rest>" when it has a      *)
(* second underscore-delimited token, then its extension:                  *)
(* [token, rest, ext].  The token is [form, ymd]: form "date" is the text  *)
(* YYYY-MM-DD of the digits ymd, form "junk" a word strptime rejects.      *)

FileName(token, rest, ext) == [token |-> token, rest |-> rest, ext |-> ext]
DateToken(ymd) == [form |-> "date", ymd |-> ymd]
JunkToken == [form |-> "junk", ymd |-> <<0, 0, 0>>]

\* f.endswith('.gpx')
EndsWithGpx(name) == name.ext = ".gpx"

\* gpx_file.split('_')[1], None where Python raises IndexError
SecondToken(name) == name.token

\* datetime.strptime(date_part, '%Y-%m-%d'), None on ValueError
StrptimeToken(token) ==
    IF token.form = "date" /\ ValidDate(token.ymd)
    THEN Some([ymd |-> token.ymd, hm |-> 0])
    ELSE None

\* The two statements of the try block that produce route_date: None where
\* either raises (IndexError, ValueError)
RouteDate(name) ==
    LET date_part == SecondToken(name)
    IN  IF date_part = None THEN None ELSE StrptimeToken(date_part[1])

\* The order of str on the name texts: '.' sorts before '_' , digits before
\* letters, and the zero-padded date texts sort as their digits do.
TupleLess(a, b) ==
    \/ a[1] < b[1]
    \/ a[1] = b[1] /\ a[2] < b[2]
    \/ a[1] = b[1] /\ a[2] = b[2] /\ a[3] < b[3]

TextLess(a, b) == a # b /\ a = CHOOSE x \in {a, b} :
                                \A y \in {a, b} : y = x \/
                                    (x = ".gpx" /\ y = ".txt") \/
                                    (x = "a" /\ y = "b")

TokenLess(a, b) ==
    \/ a.form = "date" /\ b.form = "junk"
    \/ a.form = "date" /\ b.form = "date" /\ TupleLess(a.ymd, b.ymd)

NameLess(a, b) ==
    IF a.token = None \/ b.token = None
    THEN \/ a.token = None /\ b.token # None
         \/ a.token = None /\ b.token = None /\ TextLess(a.ext, b.ext)
    ELSE \/ TokenLess(a.token[1], b.token[1])
         \/ a.token = b.token /\ TextLess(a.rest, b.rest)
         \/ a.token = b.token /\ a.rest = b.rest /\ TextLess(a.ext, b.ext)

\* gpx_files.sort(): the files in ascending order of their names
RECURSIVE SortFiles(_)
SortFiles(files) ==
    IF files = {} THEN <<>>
    ELSE LET first == CHOOSE f \in files :
                          \A g \in files : g = f \/ NameLess(f.name, g.name)
         IN  <<first>> \o SortFiles(files \ {first})

\* ---- the directory does not exist: the diagnostic, and return
DirectoryMissing ==
    /\ gpc = "start"
    /\ listing = None
    /\ diagnostics' = Append(diagnostics, "Directory not found")
    /\ gpc' = "analyzed"
    /\ UNCHANGED <<listing, gpx_files, file_idx, routes, opened,
                   processed_count, total_count, gpx_summary,
                   archiveVars, correctorVars, healthVars, eleVars, durVars, mainVars>>

\* ---- os.listdir, the .gpx filter and the sort
ListDirectory ==
    /\ gpc = "start"
    /\ listing # None
    /\ gpx_files' = SortFiles({f \in listing[1] : EndsWithGpx(f.name)})
    /\ file_idx' = 1
    /\ processed_count' = 0
    /\ total_count' = 0
    /\ gpc' = "loop"
    /\ UNCHANGED <<listing, routes, opened, diagnostics, gpx_summary,
                   archiveVars, correctorVars, healthVars, eleVars, durVars, mainVars>>

\* ---- one iteration of the loop whose date token is missing or unparsable:
\* the except clause
SkipUnparsable ==
    /\ gpc = "loop" /\ file_idx <= Len(gpx_files)
    /\ RouteDate(gpx_files[file_idx].name) = None
    /\ diagnostics' = Append(diagnostics, "Could not parse date")
    /\ total_count' = total_count + 1
    /\ file_idx' = file_idx + 1
    /\ UNCHANGED <<listing, gpx_files, routes, opened, processed_count,
                   gpx_summary, gpc,
                   archiveVars, correctorVars, healthVars, eleVars, durVars, mainVars>>

\* ---- one iteration of the loop whose date is parsed
ExamineFile ==
    /\ gpc = "loop" /\ file_idx <= Len(gpx_files)
    /\ RouteDate(gpx_files[file_idx].name) # None
    /\ LET gpx_file == gpx_files[file_idx]
       IN  /\ LET route_date == RouteDate(gpx_file.name)[1]
              IN  IF NaiveGeq(route_date, start_date)
                  THEN LET route_info == _analyze_single_gpx(gpx_file, route_date)
                       IN  /\ opened' = opened \cup {gpx_file.name}
                           /\ diagnostics' =
                                IF AnalysisRaises(gpx_file)
                                THEN Append(diagnostics, "Error analyzing")
                                ELSE diagnostics
                           /\ IF route_info # None
                              THEN /\ routes' = Append(routes, route_info[1])
                                   /\ processed_count' = processed_count + 1
                              ELSE UNCHANGED <<routes, processed_count>>
                  ELSE UNCHANGED <<opened, routes, processed_count, diagnostics>>
    /\ total_count' = total_count + 1
    /\ file_idx' = file_idx + 1
    /\ UNCHANGED <<listing, gpx_files, gpx_summary, gpc,
                   archiveVars, correctorVars, healthVars, eleVars, durVars, mainVars>>

\* ---- the loop ends; analyze_gpx_files returns
LoopEnd ==
    /\ gpc = "loop" /\ file_idx > Len(gpx_files)
    /\ gpc' = "analyzed"
    /\ UNCHANGED <<listing, gpx_files, file_idx, routes, opened,
                   processed_count, total_count, diagnostics, gpx_summary,
                   archiveVars, correctorVars, healthVars, eleVars, durVars, mainVars>>

\* route['date'][:7]
MonthKey(route) == <<route.date[1], route.date[2]>>

\* monthly_stats after the loop over self.routes
RECURSIVE MonthlyStats(_, _)
MonthlyStats(d, list) ==
    IF list = <<>> THEN d
    ELSE LET k == MonthKey(Head(list))
             old == IF k \in DOMAIN d THEN d[k]
                    ELSE [routes |-> 0, distance |-> <<>>, elevation |-> 0,
                          duration |-> 0]
         IN  MonthlyStats(
                DictPut(d, k,
                    [routes |-> old.routes + 1,
                     distance |-> old.distance \o Head(list).distance_km,
                     elevation |-> old.elevation + Head(list).elevation_gain_m,
                     duration |-> old.duration + Head(list).duration_minutes]),
                Tail(list))

RECURSIVE SumField(_, _)
SumField(list, f) ==
    IF list = <<>> THEN 0 ELSE Head(list)[f] + SumField(Tail(list), f)

\* sum(r['distance_km'] for r in self.routes)
RECURSIVE SumDistance(_)
SumDistance(list) ==
    IF list = <<>> THEN <<>> ELSE Head(list).distance_km \o SumDistance(Tail(list))

\* ---- generate_summary; main writes the summary to gpx_summary_may2025.json
\* and returns
GenerateGpxSummary ==
    /\ gpc = "analyzed"
    /\ gpx_summary' =
         IF routes = <<>>
         THEN Some([message |-> "No routes found for the specified period"])
         ELSE Some([total_routes |-> Len(routes),
                    total_distance_km |-> SumDistance(routes),
                    total_elevation_gain_m |-> SumField(routes, "elevation_gain_m"),
                    total_duration_minutes |-> SumField(routes, "duration_minutes"),
                    total_track_points |-> SumField(routes, "track_points"),
                    average_distance_per_route |->
                        [num |-> SumDistance(routes), den |-> Len(routes)],
                    average_elevation_per_route |->
                        [num |-> SumField(routes, "elevation_gain_m"),
                         den |-> Len(routes)],
                    average_duration_per_route |->
                        [num |-> SumField(routes, "duration_minutes"),
                         den |-> Len(routes)],
                    monthly_breakdown |-> MonthlyStats(EmptyDict, routes),
                    routes |-> routes])
    /\ report' = gpx_summary'
    /\ exit_status' = Some(0)
    /\ gpc' = "done"
    /\ UNCHANGED <<listing, gpx_files, file_idx, routes, opened,
                   processed_count, total_count, diagnostics,
                   archiveVars, correctorVars, healthVars, eleVars, durVars>>

\* The route directories the analyzer is run on.
May10 == <<2025, 5, 10>>
Iso(min) == Some(TimeText("aware", min, 0))
PointA == TrackPoint(50, 19, Some(100), Iso(HM(10, 0)))
PointB == TrackPoint(51, 20, Some(105), Iso(HM(10, 30)))
\* a point and its antipode
PointS == TrackPoint(0 - 82, 0 - 180, Some(100), None)
PointN == TrackPoint(82, 0, Some(105), None)
\* a point whose <time> carries no offset
PointC == TrackPoint(51, 20, Some(105), Some(TimeText("naive", HM(10, 30), 0)))

Names ==
    { FileName(Some(DateToken(Apr30)), "a", ".gpx"),
      FileName(Some(DateToken(May1)), "a", ".gpx"),
      FileName(Some(DateToken(May10)), "a", ".gpx"),
      FileName(Some(JunkToken), "a", ".gpx"),
      FileName(None, "", ".gpx"),
      FileName(Some(DateToken(May10)), "a", ".txt") }

Contents ==
    { [parse |-> "error", trkpts |-> <<>>],
      [parse |-> "ok", trkpts |-> <<>>],
      [parse |-> "ok", trkpts |-> <<PointA>>],
      [parse |-> "ok", trkpts |-> <<PointA, PointB>>],
      [parse |-> "ok", trkpts |-> <<PointS, PointN>>],
      [parse |-> "ok", trkpts |-> <<PointA, PointC>>] }

\* Every directory of at most MaxFiles files, no two of one name: a set of
\* names and a content for each.
Directories ==
    UNION { { { [name |-> n, content |-> c[n]] : n \in names } :
                c \in [names -> Contents] } :
            names \in { x \in SUBSET Names : Cardinality(x) <= MaxFiles } }

\* The state after GPXAnalyzer's __init__.
InitGpx ==
    /\ listing \in {None} \cup { Some(d) : d \in Directories }
    /\ gpx_files = <<>> /\ file_idx = 0 /\ routes = <<>> /\ opened = {}
    /\ processed_count = 0 /\ total_count = 0 /\ diagnostics = <<>>
    /\ gpx_summary = None /\ gpc = "start"
    /\ IdleArchive /\ IdleCorrector /\ IdleHealth /\ IdleEle /\ IdleDur /\ IdleMain

NextGpx ==
    \/ DirectoryMissing
    \/ ListDirectory
    \/ SkipUnparsable
    \/ ExamineFile
    \/ LoopEnd
    \/ GenerateGpxSummary

SpecGpx == InitGpx /\ [][NextGpx]_vars

\* The two programs that have a main with an exception handler, the health
\* analyzer and the route analyzer, each run from its start.
InitMain ==
    \/ Init /\ prog = "health"
    \/ InitGpx

NextMain ==
    \/ ParseStart
    \/ ParseEndRecord
    \/ ParseEndWorkout
    \/ ParseEndOther
    \/ GenerateSummary
    \/ OpenFails
    \/ DirectoryMissing
    \/ ListDirectory
    \/ SkipUnparsable
    \/ ExamineFile
    \/ LoopEnd
    \/ GenerateGpxSummary

SpecMain == InitMain /\ [][NextMain]_vars

-----------------------------------------------------------------------------
(* gpx_analyzer.py: _calculate_elevation_gain run on its own, one loop     *)
(* iteration at a time.                                                    *)

EleShort ==
    /\ epc = "start" /\ Len(points) < 2
    /\ ele_return' = Some(0)
    /\ epc' = "done"
    /\ UNCHANGED <<points, ei, elevation_gain,
                   archiveVars, correctorVars, healthVars, gpxVars, durVars, mainVars>>

EleEnter ==
    /\ epc = "start" /\ Len(points) >= 2
    /\ elevation_gain' = 0
    /\ ei' = 1
    /\ epc' = "loop"
    /\ UNCHANGED <<points, ele_return,
                   archiveVars, correctorVars, healthVars, gpxVars, durVars, mainVars>>

EleIterate ==
    /\ epc = "loop" /\ ei <= Len(points) - 1
    /\ elevation_gain' = ElevationStep(elevation_gain, points[ei], points[ei + 1])
    /\ ei' = ei + 1
    /\ UNCHANGED <<points, ele_return, epc,
                   archiveVars, correctorVars, healthVars, gpxVars, durVars, mainVars>>

EleReturn ==
    /\ epc = "loop" /\ ei > Len(points) - 1
    /\ ele_return' = Some(elevation_gain)
    /\ epc' = "done"
    /\ UNCHANGED <<points, ei, elevation_gain,
                   archiveVars, correctorVars, healthVars, gpxVars, durVars, mainVars>>

\* The elevations of the track points the function is run on.
Elevations == {None, Some(98), Some(100), Some(105)}
ElevationPoints == { TrackPoint(50, 19, e, None) : e \in Elevations }

InitEle ==
    /\ points \in UNION { [1..n -> ElevationPoints] : n \in 0..MaxPoints }
    /\ ei = 0 /\ elevation_gain = 0 /\ ele_return = None /\ epc = "start"
    /\ IdleArchive /\ IdleCorrector /\ IdleHealth /\ IdleGpx /\ IdleDur /\ IdleMain

NextEle ==
    \/ EleShort
    \/ EleEnter
    \/ EleIterate
    \/ EleReturn

SpecEle == InitEle /\ [][NextEle]_vars

-----------------------------------------------------------------------------
(* gpx_analyzer.py: _calculate_duration run on its own, one loop iteration *)
(* at a time.                                                              *)

DurShort ==
    /\ dpc = "start" /\ Len(dur_points) < 2
    /\ dur_return' = Some(Returned(0))
    /\ dpc' = "done"
    /\ UNCHANGED <<dur_points, di, start_time, end_time, archiveVars,
                   correctorVars, healthVars, gpxVars, eleVars, mainVars>>

DurEnter ==
    /\ dpc = "start" /\ Len(dur_points) >= 2
    /\ start_time' = None
    /\ end_time' = None
    /\ di' = 1
    /\ dpc' = "scan"
    /\ UNCHANGED <<dur_points, dur_return, archiveVars,
                   correctorVars, healthVars, gpxVars, eleVars, mainVars>>

DurScan ==
    /\ dpc = "scan" /\ di <= Len(dur_points)
    /\ LET times == ScanStep(<<start_time, end_time>>, dur_points[di])
       IN  /\ start_time' = times[1]
           /\ end_time' = times[2]
    /\ di' = di + 1
    /\ UNCHANGED <<dur_points, dur_return, dpc, archiveVars,
                   correctorVars, healthVars, gpxVars, eleVars, mainVars>>

DurFinish ==
    /\ dpc = "scan" /\ di > Len(dur_points)
    /\ dur_return' = Some(DurationOf(<<start_time, end_time>>))
    /\ dpc' = "done"
    /\ UNCHANGED <<dur_points, di, start_time, end_time, archiveVars,
                   correctorVars, healthVars, gpxVars, eleVars, mainVars>>

\* The <time> texts of the track points the function is run on: none,
\* 10:00Z, 12:30+02:00 (the instant 10:30Z), 10:30 without a zone, a text
\* that is no timestamp, and ''.
Times ==
    { None,
      Some(TimeText("aware", HM(10, 0), 0)),
      Some(TimeText("aware", HM(12, 30), 120)),
      Some(TimeText("naive", HM(10, 30), 0)),
      Some(TimeText("junk", 0, 0)),
      Some(TimeText("empty", 0, 0)) }
DurationPoints == { TrackPoint(50, 19, None, t) : t \in Times }

InitDur ==
    /\ dur_points \in UNION { [1..n -> DurationPoints] : n \in 0..MaxPoints }
    /\ di = 0 /\ start_time = None /\ end_time = None /\ dur_return = None
    /\ dpc = "start"
    /\ IdleArchive /\ IdleCorrector /\ IdleHealth /\ IdleGpx /\ IdleEle
    /\ IdleMain

NextDur ==
    \/ DurShort
    \/ DurEnter
    \/ DurScan
    \/ DurFinish

SpecDur == InitDur /\ [][NextDur]_vars

-----------------------------------------------------------------------------
(* Properties of the step corrector.                                       *)

\* The elements of a sequence.
Range(s) == { s[k] : k \in DOMAIN s }

\* The inclusive interval intersection test on absolute instants.
Overlaps(step, workout) ==
    /\ Instant(step.start) <= Instant(workout.end)
    /\ Instant(step.end) >= Instant(workout.start)

\* The step overlaps some workout whose type mentions the word.
OverlapsClass(step, word) ==
    \E k \in DOMAIN workout_times :
        /\ Contains(workout_times[k].type, word)
        /\ Overlaps(step, workout_times[k])

CorrectorDone == prog = "corrector" /\ result # None

\* The step records of the archive that pass the filter of
\* extract_steps_with_times: well-formed, and not before the cutoff on the
\* wall clock.
WallBeforeCutoff(ymd) == TupleLess(ymd, start_date.ymd)

PassesStepFilter(e) ==
    /\ e.tag = "Record" /\ e.type = Some(StepCount)
    /\ e.startDate # None /\ e.endDate # None /\ e.value # None
    /\ e.startDate[1].form = "full" /\ e.endDate[1].form = "full"
    /\ e.value[1].form = "int"
    /\ ~WallBeforeCutoff(e.startDate[1].ymd)

ArchiveStepValues ==
    LET kept == SelectSeq(archive, PassesStepFilter)
    IN  [k \in DOMAIN kept |-> kept[k].value[1].n]

\* C1: once calculate_corrected_steps has returned, corrected_steps +
\* cycling_steps + skating_steps equals total_steps, and total_steps is the
\* sum of the values of the step records that passed the cutoff filter.
C1_CorrectedSum ==
    CorrectorDone =>
        LET r == result[1]
        IN  /\ r.corrected_steps + r.cycling_steps + r.skating_steps = r.total_steps
            /\ r.total_steps = SumValues(r.step_records)
            /\ r.total_steps = SumSeq(ArchiveStepValues)

C1_Witness ==
    /\ CorrectorDone
    /\ result[1].cycling_steps > 0
    /\ result[1].corrected_steps > 0
    /\ result[1].total_steps > result[1].corrected_steps

\* C2: every step record is counted in at most one class, chosen in the
\* order cycling, skating, walking: the cycling list holds exactly the
\* records (so far classified) that overlap a cycling workout, the skating
\* list those that overlap a skating workout and no cycling workout, the
\* walking list those that overlap a walking workout and neither of the
\* others; the returned sums are the sums of these lists.
Classified == SubSeq(step_records, 1, idx - 1)

C2_FirstMatchPriority ==
    (prog = "corrector" /\ pc \in {"classify", "done"}) =>
        /\ steps_during_cycling =
             SelectSeq(Classified, LAMBDA s : OverlapsClass(s, "Cycling"))
        /\ steps_during_skating =
             SelectSeq(Classified, LAMBDA s : /\ ~OverlapsClass(s, "Cycling")
                                              /\ OverlapsClass(s, "Skating"))
        /\ steps_during_walking =
             SelectSeq(Classified, LAMBDA s : /\ ~OverlapsClass(s, "Cycling")
                                              /\ ~OverlapsClass(s, "Skating")
                                              /\ OverlapsClass(s, "Walking"))
        /\ result # None =>
             /\ idx = Len(step_records) + 1
             /\ result[1].cycling_steps = SumValues(steps_during_cycling)
             /\ result[1].skating_steps = SumValues(steps_during_skating)
             /\ result[1].walking_steps = SumValues(steps_during_walking)

C2_Witness ==
    /\ CorrectorDone
    /\ Len(step_records) = 1
    /\ OverlapsClass(step_records[1], "Cycling")
    /\ OverlapsClass(step_records[1], "Skating")
    /\ result[1].cycling_steps = step_records[1].value
    /\ result[1].skating_steps = 0
    /\ result[1].walking_steps = 0

\* C3: is_step_during_workout(step, workouts) is true exactly when some
\* workout of the list satisfies step.start <= workout.end and
\* step.end >= workout.start, on every step record and every workout list
\* the program holds; it is false on the empty list.
WorkoutLists ==
    {workout_times, cycling_workouts, skating_workouts, walking_workouts, <<>>}

C3_OverlapPredicate ==
    prog = "corrector" =>
        \A s \in Range(step_records) :
            /\ \A list \in WorkoutLists :
                 is_step_during_workout(s, list)
                   <=> (\E k \in DOMAIN list : Overlaps(s, list[k]))
            /\ ~is_step_during_workout(s, <<>>)

\* A step record that only touches the cycling workouts at a boundary
\* instant has been attributed to cycling.
C3_Witness ==
    /\ CorrectorDone
    /\ \E s \in Range(steps_during_cycling) :
         \A k \in DOMAIN cycling_workouts :
             \/ Instant(s.start) = Instant(cycling_workouts[k].end)
             \/ Instant(s.end) = Instant(cycling_workouts[k].start)

\* C4: a step record strictly inside a cycling workout is in the cycling
\* list and in no other; corrected_steps is the sum of the values of the
\* records in neither the cycling nor the skating list; a record that
\* overlaps no cycling, skating or walking workout is in no list.  In the
\* scenario of one cycling workout 10:00-10:30 with the records
\* 10:05-10:10 (500) and 11:00-11:05 (200), cycling_steps is 500 and
\* corrected_steps is 200.
StrictlyInsideCycling(s) ==
    \E k \in DOMAIN workout_times :
        /\ Contains(workout_times[k].type, "Cycling")
        /\ Instant(workout_times[k].start) < Instant(s.start)
        /\ Instant(s.start) <= Instant(s.end)
        /\ Instant(s.end) < Instant(workout_times[k].end)

Scenario ==
    archive = << WorkoutElem(Cycling, May1, HM(10, 0), HM(10, 30), 0),
                 StepElem(May1, HM(10, 5), HM(10, 10), 0, IntText(500)),
                 StepElem(May1, HM(11, 0), HM(11, 5), 0, IntText(200)) >>

C4_InsideCyclingExcluded ==
    CorrectorDone =>
        /\ \A s \in Range(step_records) :
             /\ StrictlyInsideCycling(s) =>
                  /\ s \in Range(steps_during_cycling)
                  /\ s \notin Range(steps_during_skating)
                  /\ s \notin Range(steps_during_walking)
             /\ (/\ ~OverlapsClass(s, "Cycling")
                 /\ ~OverlapsClass(s, "Skating")
                 /\ ~OverlapsClass(s, "Walking")) =>
                  s \notin Range(steps_during_cycling)
                           \cup Range(steps_during_skating)
                           \cup Range(steps_during_walking)
        /\ result[1].corrected_steps =
             SumValues(SelectSeq(step_records,
                 LAMBDA s : s \notin Range(steps_during_cycling)
                                     \cup Range(steps_during_skating)))
        /\ Scenario => /\ result[1].cycling_steps = 500
                       /\ result[1].corrected_steps = 200

C4_Witness ==
    /\ CorrectorDone
    /\ Scenario
    /\ StrictlyInsideCycling(step_records[1])
    /\ result[1].cycling_steps = 500
    /\ result[1].corrected_steps = 200

-----------------------------------------------------------------------------
(* Properties of the cutoff filter, in both archive programs.              *)

\* The text starts with the calendar digits of a day before the cutoff.
TextBeforeCutoff(text) ==
    text.form \in {"full", "date"} /\ WallBeforeCutoff(text.ymd)

\* The records of the archive that the health analyzer keeps as step data:
\* step records with a parsable day not before the cutoff and an integer
\* value.
KeptAsStepData(e) ==
    /\ e.tag = "Record" /\ e.type = Some(StepCount)
    /\ e.startDate # None /\ e.value # None
    /\ e.startDate[1].form \in {"full", "date"}
    /\ ~WallBeforeCutoff(e.startDate[1].ymd)
    /\ e.value[1].form = "int"

\* The number of records of the archive of one type that are dated before
\* the cutoff.
OldRecordsOfType(t) ==
    Cardinality({ k \in DOMAIN archive :
                    /\ archive[k].tag = "Record"
                    /\ archive[k].type = Some(t)
                    /\ archive[k].startDate # None
                    /\ TextBeforeCutoff(archive[k].startDate[1]) })
RecordsOfType(t) ==
    Cardinality({ k \in DOMAIN archive :
                    archive[k].tag = "Record" /\ archive[k].type = Some(t) })

\* The sum of the values of the kept step records of one day.
KeptStepsOfDay(ymd) ==
    LET kept == SelectSeq(archive,
                    LAMBDA e : KeptAsStepData(e) /\ e.startDate[1].ymd = ymd)
    IN  SumSeq([k \in DOMAIN kept |-> kept[k].value[1].n])

\* C5: a step record dated before the cutoff appears in no output.  In the
\* step corrector no entry of step_records starts before the cutoff on the
\* wall clock and total_steps sums only records that pass the filter.  In
\* the health analyzer no entry of step_data is dated before the cutoff, no
\* per-type count counts a record dated before the cutoff, and the daily
\* breakdown has no day before the cutoff and sums, for each day, only the
\* kept records of that day.
C5_CutoffFilter ==
    /\ prog = "corrector" =>
         /\ \A k \in DOMAIN step_records :
              ~WallBeforeCutoff(step_records[k].start.ymd)
         /\ Len(step_records) <= Len(SelectSeq(archive, PassesStepFilter))
         /\ pc \in {"classify", "done"} =>
              /\ Len(step_records) = Len(SelectSeq(archive, PassesStepFilter))
              /\ total_steps = SumSeq(ArchiveStepValues)
    /\ prog = "health" =>
         /\ \A k \in DOMAIN step_data : ~TextBeforeCutoff(step_data[k].date)
         /\ \A t \in DOMAIN stats :
              stats[t] <= RecordsOfType(t) - OldRecordsOfType(t)
         /\ pc = "done" =>
              LET s == summary[1].step_summary
              IN  /\ summary[1].record_types = stats
                  /\ "daily_breakdown" \in DOMAIN s =>
                       \A d \in DOMAIN s.daily_breakdown :
                           /\ ~WallBeforeCutoff(d)
                           /\ s.daily_breakdown[d] = KeptStepsOfDay(d)

\* The health analyzer has finished an archive that holds a step record
\* dated before the cutoff and one dated after it.
C5_Witness ==
    /\ prog = "health" /\ pc = "done"
    /\ OldRecordsOfType(StepCount) > 0
    /\ Len(step_data) > 0
    /\ "daily_breakdown" \in DOMAIN summary[1].step_summary

-----------------------------------------------------------------------------
(* Properties of the health analyzer.                                      *)

\* The workouts of the archive dated at or after the cutoff.
WorkoutOnOrAfterCutoff(e) ==
    /\ e.tag = "Workout" /\ e.startDate # None
    /\ e.startDate[1].form \in {"full", "date"}
    /\ ~WallBeforeCutoff(e.startDate[1].ymd)

\* The record holds, under the block's type, the block's five attributes.
HoldsStatistic(record, block) ==
    /\ block.type[1] \in DOMAIN record.statistics
    /\ record.statistics[block.type[1]] =
         [average |-> block.average, minimum |-> block.minimum,
          maximum |-> block.maximum, sum |-> block.sum, unit |-> block.unit]

\* C6: once the parse has finished, the k-th workout record corresponds to
\* the k-th workout of the archive dated at or after the cutoff, and holds
\* an entry for every nested WorkoutStatistics block that has a type, with
\* the block's average, minimum, maximum, sum and unit as in the input.
C6_WorkoutStatisticsKept ==
    (prog = "health" /\ pc = "done") =>
        LET dated == SelectSeq(archive, WorkoutOnOrAfterCutoff)
        IN  /\ Len(workouts) = Len(dated)
            /\ \A k \in DOMAIN dated :
                 \A j \in DOMAIN dated[k].kids :
                     (/\ dated[k].kids[j].tag = "WorkoutStatistics"
                      /\ dated[k].kids[j].type # None)
                       => HoldsStatistic(workouts[k], dated[k].kids[j])

\* The record's start date is missing or unparsable, or its value, which
\* the analyzer converts for the record's type, is not numeric.
FailsRecordParsing(e) ==
    \/ e.startDate = None
    \/ e.startDate[1].form \notin {"full", "date"}
    \/ ~ValidDate(e.startDate[1].ymd)
    \/ /\ e.type \in {Some(HeartRate), Some(StepCount),
                      Some(ActiveEnergyBurned), Some(BasalEnergyBurned)}
       /\ e.value # None
       /\ e.value[1].form # "int"

AtEndOfRecord ==
    /\ prog = "health" /\ pc = "parse"
    /\ pos <= Len(Events(archive))
    /\ Events(archive)[pos].ev = "end"
    /\ Events(archive)[pos].j = 0
    /\ Events(archive)[pos].i > 0
    /\ archive[Events(archive)[pos].i].tag = "Record"

\* C7: the step that handles the end of a record which fails record-level
\* parsing changes neither the per-type counts nor the heart-rate, step and
\* energy collections, and moves on to the next event.
C7_FailedRecordSkippedWhole ==
    [][ (AtEndOfRecord /\ FailsRecordParsing(archive[Events(archive)[pos].i]))
          => /\ stats' = stats
             /\ heart_rate_data' = heart_rate_data
             /\ step_data' = step_data
             /\ energy_data' = energy_data
             /\ pos' = pos + 1 ]_vars

-----------------------------------------------------------------------------
(* Properties of the route analyzer.                                       *)

Max0(x) == IF x > 0 THEN x ELSE 0

\* The gain of the pair (i, i + 1): the positive part of the difference
\* where both elevations are present, 0 otherwise.
PairGain(pts, i) ==
    IF pts[i].ele # None /\ pts[i + 1].ele # None
    THEN Max0(pts[i + 1].ele[1] - pts[i].ele[1])
    ELSE 0

GainOfPairs(pts) == SumSeq([i \in 1..(Len(pts) - 1) |-> PairGain(pts, i)])

NonIncreasing(pts) ==
    \A i \in 1..(Len(pts) - 1) :
        (pts[i].ele # None /\ pts[i + 1].ele # None)
          => pts[i + 1].ele[1] <= pts[i].ele[1]

\* C8: _calculate_elevation_gain returns the sum over consecutive pairs of
\* max(0, ele[i+1] - ele[i]) over the pairs with both elevations present;
\* the result is never negative, and 0 when the elevations do not increase.
\* While the loop runs, elevation_gain is that sum over the pairs done.
C8_ElevationGain ==
    /\ epc = "loop" =>
         /\ elevation_gain = GainOfPairs(SubSeq(points, 1, ei))
         /\ elevation_gain >= 0
    /\ epc = "done" =>
         /\ ele_return = Some(GainOfPairs(points))
         /\ ele_return[1] >= 0
         /\ NonIncreasing(points) => ele_return[1] = 0
         /\ _calculate_elevation_gain(points) = ele_return[1]

\* A track with a climb, a descent and a missing elevation has been summed.
C8_Witness ==
    /\ epc = "done"
    /\ Len(points) = 3
    /\ ele_return[1] > 0
    /\ \E i \in 1..2 : /\ points[i].ele # None /\ points[i + 1].ele # None
                       /\ points[i + 1].ele[1] < points[i].ele[1]

\* The file is one the loop analyses: a .gpx name whose date token parses
\* to a day at or after the cutoff.
DatedOnOrAfterCutoff(name) ==
    /\ name.token # None
    /\ name.token[1].form = "date"
    /\ ValidDate(name.token[1].ymd)
    /\ ~WallBeforeCutoff(name.token[1].ymd)

Eligible(f) == EndsWithGpx(f.name) /\ DatedOnOrAfterCutoff(f.name)

\* The file yields an empty track-point list.
NoTrackPoints(f) == f.content.parse = "ok" /\ f.content.trkpts = <<>>

\* The file yields a non-empty track-point list.
HasTrackPoints(f) == f.content.parse = "ok" /\ f.content.trkpts # <<>>

RouteNames == { routes[k].filename : k \in DOMAIN routes }

\* The file has track points and neither _calculate_distance nor
\* _calculate_duration raises on them.
Analysable(f) ==
    /\ HasTrackPoints(f)
    /\ _calculate_distance(f.content.trkpts).kind = "return"
    /\ _calculate_duration(f.content.trkpts).kind = "return"

Counted == IF listing = None THEN {}
           ELSE { f \in listing[1] : Eligible(f) /\ Analysable(f) }

\* The number of track points of a set of files.
RECURSIVE TotalPoints(_)
TotalPoints(files) ==
    IF files = {} THEN 0
    ELSE LET f == CHOOSE x \in files : TRUE
         IN  Len(f.content.trkpts) + TotalPoints(files \ {f})

\* C9: a route file that yields an empty track-point list gives no result:
\* _analyze_single_gpx returns None for it, it is not in self.routes, and
\* the summary counts, sums and groups only files with track points (those
\* whose analysis returns).
C9_EmptyRouteExcluded ==
    listing # None =>
        /\ \A f \in listing[1] :
             NoTrackPoints(f) =>
                 /\ _analyze_single_gpx(f, start_date) = None
                 /\ f.name \notin RouteNames
        /\ gpc = "done" =>
             LET g == gpx_summary[1]
             IN  IF Counted = {} THEN DOMAIN g = {"message"}
                 ELSE /\ g.total_routes = Cardinality(Counted)
                      /\ g.total_track_points = TotalPoints(Counted)
                      /\ g.average_elevation_per_route.den = Cardinality(Counted)
                      /\ g.average_duration_per_route.den = Cardinality(Counted)
                      /\ \A m \in DOMAIN g.monthly_breakdown :
                           g.monthly_breakdown[m].routes =
                             Cardinality({ f \in Counted :
                                 <<f.name.token[1].ymd[1],
                                   f.name.token[1].ymd[2]>> = m })

\* The summary of a directory with an analysed empty route and a route
\* with track points.
C9_Witness ==
    /\ gpc = "done" /\ listing # None
    /\ \E f \in listing[1] :
         Eligible(f) /\ NoTrackPoints(f) /\ f.name \in opened
    /\ Counted # {}
    /\ gpx_summary[1].total_routes = Cardinality(Counted)

\* The files the loop has gone past.
Examined == { gpx_files[k] : k \in 1..(file_idx - 1) }

\* C10: a file whose name-encoded date is before the cutoff is never
\* opened and never in self.routes; a file whose date token is missing or
\* unparsable does not end the loop: every file gone past with a date at or
\* after the cutoff and with track points is in self.routes, and when the
\* loop has ended every .gpx file of the directory has been gone past.
C10_DateFilterNonFatal ==
    (listing # None /\ gpc \in {"loop", "analyzed", "done"}) =>
        /\ \A name \in opened \cup RouteNames : DatedOnOrAfterCutoff(name)
        /\ \A f \in Examined :
             (DatedOnOrAfterCutoff(f.name) /\ HasTrackPoints(f))
                => f.name \in RouteNames
        /\ total_count = Cardinality(Examined)
        /\ gpc \in {"analyzed", "done"} =>
             /\ Examined = { f \in listing[1] : EndsWithGpx(f.name) }
             /\ RouteNames = { f.name : f \in Counted }

-----------------------------------------------------------------------------
(* Properties of the summaries and of the two main functions.              *)

HealthDone == prog = "health" /\ pc = "done"

\* The explicit no-data marker: a dictionary holding only a message.
NoData(r) == DOMAIN r = {"message"}

\* A true division whose divisor is the size n of a non-empty collection.
Divides(q, n) == q.den = n /\ n > 0

\* C11: every analysis of the health summary and the route summary returns
\* the no-data marker exactly when the collection it reads is empty, and
\* otherwise divides by the size of a non-empty collection and takes its
\* minimum and maximum among that collection's values; the energy analysis
\* reports a group only when the group has entries.
C11_DivisionGuards ==
    /\ HealthDone =>
         LET s == summary[1]
         IN  /\ IF heart_rate_data = <<>> THEN NoData(s.heart_rate_summary)
                ELSE /\ Divides(s.heart_rate_summary.average, Len(heart_rate_data))
                     /\ s.heart_rate_summary.min \in Range(ValuesOf(heart_rate_data))
                     /\ s.heart_rate_summary.max \in Range(ValuesOf(heart_rate_data))
             /\ IF step_data = <<>> THEN NoData(s.step_summary)
                ELSE /\ Divides(s.step_summary.average_daily,
                                Cardinality(DOMAIN s.step_summary.daily_breakdown))
                     /\ s.step_summary.max_daily
                          \in Range(s.step_summary.daily_breakdown)
                     /\ s.step_summary.min_daily
                          \in Range(s.step_summary.daily_breakdown)
             /\ IF energy_data = <<>> THEN NoData(s.energy_summary)
                ELSE /\ DOMAIN s.energy_summary # {}
                     /\ DOMAIN s.energy_summary
                          \subseteq {"active_energy", "basal_energy"}
                     /\ \A g \in DOMAIN s.energy_summary :
                          LET group == SelectSeq(energy_data, LAMBDA e :
                                  Contains(e.type,
                                      IF g = "active_energy" THEN "ActiveEnergy"
                                      ELSE "BasalEnergy"))
                          IN  /\ Divides(s.energy_summary[g].average, Len(group))
                              /\ s.energy_summary[g].max \in Range(ValuesOf(group))
             /\ IF workouts = <<>> THEN NoData(s.workout_summary)
                ELSE Divides(s.workout_summary.average_duration, Len(workouts))
    /\ gpc = "done" =>
         IF routes = <<>> THEN NoData(gpx_summary[1])
         ELSE /\ Divides(gpx_summary[1].average_elevation_per_route, Len(routes))
              /\ Divides(gpx_summary[1].average_duration_per_route, Len(routes))

\* A summary with heart-rate data and energy data but no steps and no
\* workouts.
C11_Witness ==
    /\ HealthDone
    /\ heart_rate_data # <<>> /\ energy_data # <<>>
    /\ step_data = <<>> /\ workouts = <<>>
    /\ NoData(summary[1].step_summary)
    /\ NoData(summary[1].workout_summary)
    /\ summary[1].heart_rate_summary.average.den = Len(heart_rate_data)

\* C12: a process ends with a non-zero status only when the health
\* analyzer cannot open its archive, and then no report has been written;
\* the health analyzer run on such an archive does nothing else.  The
\* route analyzer run on a missing directory prints the diagnostic, keeps
\* an empty route list, writes the no-routes summary and ends with status
\* 0; it never ends with another status.
C12_ExitStatus ==
    /\ (exit_status # None /\ exit_status # Some(0)) =>
         /\ prog = "health" /\ ~readable
         /\ report = None /\ summary = None
    /\ (prog = "health" /\ ~readable) =>
         /\ report = None /\ summary = None /\ pos = 1
         /\ pc \in {"parse", "exited"}
         /\ pc = "exited" => exit_status = Some(1)
    /\ (prog = "health" /\ readable /\ exit_status # None) =>
         /\ exit_status = Some(0) /\ report = summary /\ report # None
    /\ gpc # "idle" =>
         /\ exit_status \in {None, Some(0)}
         /\ (listing = None /\ gpc \in {"analyzed", "done"}) =>
              /\ diagnostics = <<"Directory not found">>
              /\ routes = <<>>
         /\ (listing = None /\ gpc = "done") =>
              /\ NoData(gpx_summary[1])
              /\ report = gpx_summary
              /\ exit_status = Some(0)

\* The health analyzer has ended on an archive it could not open.
C12_Witness ==
    /\ prog = "health" /\ ~readable /\ pc = "exited"
    /\ exit_status = Some(1)
    /\ report = None

-----------------------------------------------------------------------------
(* Properties of the streaming passes.                                     *)

\* A streaming pass over the archive is in progress.
InPass ==
    /\ prog \in {"corrector", "health"}
    /\ pc \in {"workout_times", "step_records", "distances", "parse"}

\* The end event of the top-level element i has been handled.
EndHandled(i) ==
    \E p \in 1..(pos - 1) : Events(archive)[p] = [ev |-> "end", i |-> i, j |-> 0]

\* C13: in every streaming pass, every element of the tree whose end event
\* has been handled is cleared, whatever its tag.
C13_ElementsReleased ==
    InPass =>
        \A i \in DOMAIN dom :
            EndHandled(i) => dom[i] = ClearedElement(dom[i].tag)

-----------------------------------------------------------------------------
(* Properties of _calculate_duration.                                      *)

\* The points that carry a timestamp.
Stamped(pts) == SelectSeq(pts, LAMBDA q : Truthy(q.time))

\* The text is a timestamp; the minute it denotes on the time axis.
Parses(text) == text.form \in {"aware", "naive"}
MinuteOf(text) == text.min - (IF text.form = "aware" THEN text.tz ELSE 0)

\* The minutes from the first to the last timestamp, 0 when there are
\* fewer than two or one of the two is no timestamp.
FirstToLast(pts) ==
    LET st == Stamped(pts)
    IN  IF Len(st) < 2 THEN 0
        ELSE IF ~Parses(st[1].time[1]) THEN 0
        ELSE IF ~Parses(st[Len(st)].time[1]) THEN 0
        ELSE MinuteOf(st[Len(st)].time[1]) - MinuteOf(st[1].time[1])

\* C14: _calculate_duration returns the minutes from the first to the last
\* track point that carries a timestamp, and returns 0 when fewer than two
\* points carry one or when either of the two fails to parse.
C14_DurationFirstToLast ==
    dpc = "done" =>
        /\ dur_return[1].kind = "return"
        /\ dur_return[1].value = FirstToLast(dur_points)

-----------------------------------------------------------------------------
(* Properties of the step corrector: walking workouts, time zones, bounds. *)

\* A workout element whose type names walking and neither cycling nor
\* skating.
WalkingOnly(e) ==
    IF e.tag = "Workout" /\ e.type # None
    THEN /\ Contains(e.type[1], "Walking")
         /\ ~Contains(e.type[1], "Cycling")
         /\ ~Contains(e.type[1], "Skating")
    ELSE FALSE

\* The archive with its walking workouts removed.
WithoutWalking == SelectSeq(archive, LAMBDA e : ~WalkingOnly(e))

\* The values of the records that overlap a workout of the first class,
\* resp. of the second class and none of the first, among the workouts.
FirstClassSteps(records, times, first) ==
    SumValues(SelectSeq(records, LAMBDA s :
        is_step_during_workout(s, WorkoutsOfType(times, first))))

SecondClassSteps(records, times, first, second) ==
    SumValues(SelectSeq(records, LAMBDA s :
        /\ ~is_step_during_workout(s, WorkoutsOfType(times, first))
        /\ is_step_during_workout(s, WorkoutsOfType(times, second))))

\* The step records in none of the three lists.
Unlisted ==
    SelectSeq(step_records, LAMBDA s :
        s \notin Range(steps_during_cycling) \cup Range(steps_during_skating)
                 \cup Range(steps_during_walking))

\* C15: the result on an archive equals, in total_steps, cycling_steps,
\* skating_steps and corrected_steps, what the same step records and the
\* same cycling and skating workouts give with every walking workout
\* removed; and corrected_steps includes the steps attributed to walking:
\* it is walking_steps plus the steps attributed to no workout.
C15_WalkingFrame ==
    CorrectorDone =>
        LET r == result[1]
            times == extract_workout_times(WithoutWalking)
            records == extract_steps_with_times(WithoutWalking)
            cycling == FirstClassSteps(records, times, "Cycling")
            skating == SecondClassSteps(records, times, "Cycling", "Skating")
        IN  /\ r.total_steps = SumValues(records)
            /\ r.cycling_steps = cycling
            /\ r.skating_steps = skating
            /\ r.corrected_steps = SumValues(records) - cycling - skating
            /\ r.corrected_steps = r.walking_steps + SumValues(Unlisted)

\* A run on an archive with a walking workout that attributed steps to it.
C15_Witness ==
    /\ CorrectorDone
    /\ WithoutWalking # archive
    /\ result[1].walking_steps > 0
    /\ result[1].corrected_steps >= result[1].walking_steps

\* The workouts of the archive that extract_workout_times keeps.
PassesWorkoutFilter(e) ==
    /\ e.tag = "Workout"
    /\ e.startDate # None /\ e.endDate # None
    /\ e.startDate[1].form = "full" /\ e.endDate[1].form = "full"
    /\ ~WallBeforeCutoff(e.startDate[1].ymd)

\* A timestamp text as an aware datetime: its digits and its offset.
AsStored(text) == [ymd |-> text.ymd, hm |-> text.hm, tz |-> text.tz]

\* The absolute minute of an aware datetime: local time minus offset.
Absolute(dt) == ToOrdinal(dt.ymd) * 1440 + dt.hm - dt.tz

AbsoluteOverlap(s, w) ==
    /\ Absolute(s.start) <= Absolute(w.end)
    /\ Absolute(s.end) >= Absolute(w.start)

\* The same test on the wall-clock digits, the offsets ignored.
WallClockOverlap(s, w) ==
    /\ NaiveMinutes(s.start) <= NaiveMinutes(w.end)
    /\ NaiveMinutes(s.end) >= NaiveMinutes(w.start)

\* C16: the timestamps stored by the two passes are those of the kept
\* elements with their offsets, and the overlap test, hence the list a step
\* record lands in, is decided by the absolute instants.
C16_AwareOverlap ==
    prog = "corrector" =>
        /\ pc \in {"step_records", "classify", "done"} =>
             LET kept == SelectSeq(archive, PassesWorkoutFilter)
             IN  /\ Len(workout_times) = Len(kept)
                 /\ \A k \in DOMAIN kept :
                      /\ workout_times[k].start = AsStored(kept[k].startDate[1])
                      /\ workout_times[k].end = AsStored(kept[k].endDate[1])
        /\ pc \in {"classify", "done"} =>
             LET kept == SelectSeq(archive, PassesStepFilter)
             IN  /\ Len(step_records) = Len(kept)
                 /\ \A k \in DOMAIN kept :
                      /\ step_records[k].start = AsStored(kept[k].startDate[1])
                      /\ step_records[k].end = AsStored(kept[k].endDate[1])
        /\ pc \in {"classify", "done"} =>
             \A s \in Range(Classified) :
                 /\ \A word \in {"Cycling", "Skating", "Walking"} :
                      is_step_during_workout(s, WorkoutsOfType(workout_times, word))
                        <=> \E w \in Range(WorkoutsOfType(workout_times, word)) :
                                AbsoluteOverlap(s, w)
                 /\ s \in Range(steps_during_cycling)
                      <=> \E w \in Range(cycling_workouts) : AbsoluteOverlap(s, w)

\* A step record written with another offset than a cycling workout has
\* been attributed to it although their wall-clock digits do not overlap.
C16_Witness ==
    /\ CorrectorDone
    /\ \E s \in Range(steps_during_cycling) :
         \E w \in Range(cycling_workouts) :
             /\ s.start.tz # w.start.tz
             /\ AbsoluteOverlap(s, w)
             /\ ~WallClockOverlap(s, w)

NonNegativeValues == \A s \in Range(step_records) : s.value >= 0

\* C17: when every step record value is non-negative, the result satisfies
\* 0 <= walking_steps <= corrected_steps <= total_steps and
\* cycling_steps + skating_steps + walking_steps <= total_steps.
C17_Ordering ==
    (CorrectorDone /\ NonNegativeValues) =>
        LET r == result[1]
        IN  /\ 0 <= r.walking_steps
            /\ r.walking_steps <= r.corrected_steps
            /\ r.corrected_steps <= r.total_steps
            /\ r.cycling_steps + r.skating_steps + r.walking_steps
                 <= r.total_steps

\* A run with steps attributed to walking and steps attributed to nothing.
C17_Witness ==
    /\ CorrectorDone /\ NonNegativeValues
    /\ result[1].walking_steps > 0
    /\ result[1].walking_steps < result[1].corrected_steps
    /\ result[1].corrected_steps = result[1].total_steps

====
